---- MODULE Spec2Model ----
(***************************************************************************)
(* A model of the consistency-preserving translation pipeline: the term    *)
(* dictionary (dictionary_manager.py), the history store                   *)
(* (translate_history.py), the quality evaluator (translate_evaluator.py), *)
(* and the orchestrator with its cache and improvement loop                *)
(* (consistent_translator.py, translate_service.py).                       *)
(*                                                                         *)
(* Representation.  A text is a sequence of whitespace-separated tokens; a *)
(* token is a word (a run of \w characters) followed by optional           *)
(* punctuation.  A Python dict is a sequence of <<key, value>> pairs in    *)
(* insertion order.  A Python value that may be None, a str or a dict is a *)
(* record [ty, s, keys].                                                   *)
(***************************************************************************)
EXTENDS Integers, Sequences, FiniteSets, TLC

VARIABLES
    dictMem,      \* DictionaryManager._dictionaries: lang -> [loaded, d]
    dictFile,     \* <lang>_dictionary.json on disk: lang -> [exists, d]
    diskOK,       \* whether the file operations of this run succeed
    call,         \* the last direct call of a dictionary or history method
    history,      \* TranslationHistory._history: "src:tgt" -> list of records
    histFile,     \* translation_history.json: the map last written
    added,        \* per key, the source texts of the direct add_history calls
    settings,     \* the ENABLE_* options of settings.py
    translation_cache,      \* translate_service.translation_cache
    _evaluation_history,    \* TranslationEvaluator._evaluation_history
    req,          \* the translate requests: locals, position, outcome
    env,          \* what the callers and the model backend may send
    lastDone      \* the request whose successful return was the latest step

dictVars == <<dictMem, dictFile, diskOK>>
histVars == <<history, histFile, added>>
svcVars == <<settings, translation_cache, _evaluation_history, req, env, lastDone>>
vars == <<dictMem, dictFile, diskOK, call, history, histFile, added, settings,
          translation_cache, _evaluation_history, req, env, lastDone>>

---------------------------------------------------------------------------
(* Words.  Target-language (Korean) words are written "<...>"; their      *)
(* lengths are the lengths of the Hangul strings they stand for.          *)

LongWord == "pneumonoultramicroscopicsilicovolcanoconiosis"
HugeWord == "<a word of 1001 letters>"
LongPhrase == "pneumonoultramicroscopicsilicovolcanoconiosis Sara"

\* len(w)
WLen(w) ==
    CASE w = "" -> 0
      [] w = "Sara" -> 4
      [] w = "sara" -> 4
      [] w = "hello" -> 5
      [] w = "ok" -> 2
      [] w = "42" -> 2
      [] w = LongWord -> 45
      [] w = "<sara>" -> 2
      [] w = "<annyeong>" -> 2
      [] w = "<annyeonghaseyo>" -> 5
      [] w = "<salami>" -> 3 [] w = LongPhrase -> 50 [] w = "<ne>" -> 1 [] w = " " -> 1 [] w = HugeWord -> 1001
      [] OTHER -> 3

\* w.lower()
Lower(w) == IF w = "Sara" THEN "sara" ELSE w

\* re.match(r'^[a-zA-Z]+$', w)
IsAsciiAlpha(w) == w \in {"Sara", "sara", "hello", "ok", LongWord}

\* w.isdigit()
IsDigit(w) == w = "42"

\* a digits-and-symbols test that never holds
OnlyDigitsNever(w) == FALSE

\* re.match(r'^[\d\W]+$', w)
OnlyDigitsOrNonWord(w) == w = "42"

---------------------------------------------------------------------------
(* Texts *)

Tok(w) == [w |-> w, p |-> ""]
TokP(w) == [w |-> w, p |-> ","]
Word(w) == <<Tok(w)>>

\* len(token): the word and its punctuation
TokLen(t) == WLen(t.w) + (IF t.p = "" THEN 0 ELSE 1)

RECURSIVE TextLen(_)
\* len(text): the tokens and the single spaces between them
TextLen(t) ==
    IF t = <<>> THEN 0
    ELSE IF Len(t) = 1 THEN TokLen(t[1])
    ELSE TokLen(t[1]) + 1 + TextLen(Tail(t))

\* " " in text
HasSpace(t) == Len(t) >= 2

\* the text a dictionary key spells: the key LongPhrase is a text of two
\* words, every other key is one word
KeyText(w) == IF w = LongPhrase THEN <<Tok(LongWord), Tok("Sara")>> ELSE <<Tok(w)>>

\* text == w, for a key w
TextIs(t, w) == t = KeyText(w)

\* text.lower() == w.lower(), for a key w
TextIsLower(t, w) ==
    /\ Len(t) = Len(KeyText(w))
    /\ \A i \in 1..Len(t) :
          t[i].p = KeyText(w)[i].p /\ Lower(t[i].w) = Lower(KeyText(w)[i].w)

---------------------------------------------------------------------------
(* Python values *)

None == [ty |-> "none", s |-> <<>>, keys |-> <<>>]
Str(t) == [ty |-> "str", s |-> t, keys |-> <<>>]
PyDict(ks) == [ty |-> "dict", s |-> <<>>, keys |-> ks]

\* Python dicts as insertion-ordered sequences of <<key, value>>
DictHas(d, k) == \E i \in 1..Len(d) : d[i][1] = k
DictGet(d, k) == d[CHOOSE i \in 1..Len(d) : d[i][1] = k][2]
DictPut(d, k, v) ==
    IF DictHas(d, k)
    THEN [i \in 1..Len(d) |-> IF d[i][1] = k THEN <<k, v>> ELSE d[i]]
    ELSE Append(d, <<k, v>>)

---------------------------------------------------------------------------
(* Term dictionary: dictionary_manager.py *)

_priority_categories == <<"character_names", "place_names", "custom_terms", "ui", "general">>

MAX_DIRECT_REPLACEMENT_LENGTH == 30

\* the skeleton _create_default_dictionary writes
base_dict ==
    << <<"character_names", <<>> >>, <<"place_names", <<>> >>,
       <<"custom_terms", <<>> >>, <<"ui", <<>> >> >>

NotLoaded == [loaded |-> FALSE, d |-> <<>>]
NoFile == [exists |-> FALSE, d |-> <<>>]

\* _create_default_dictionary: io says whether the file operation succeeds
_create_default_dictionary(file, lang, io) ==
    IF io THEN [file EXCEPT ![lang] = [exists |-> TRUE, d |-> base_dict]]
    ELSE file

\* get_dictionary: [mem, file, d, raised]; raised is the KeyError of line 118
get_dictionary(mem, file, lang, io) ==
    IF mem[lang].loaded
    THEN [mem |-> mem, file |-> file, d |-> mem[lang].d, raised |-> FALSE]
    ELSE LET file1 == IF ~file[lang].exists
                      THEN _create_default_dictionary(file, lang, io)
                      ELSE file
         IN  IF file1[lang].exists /\ io
             THEN [mem |-> [mem EXCEPT ![lang] = [loaded |-> TRUE, d |-> file1[lang].d]],
                   file |-> file1, d |-> file1[lang].d, raised |-> FALSE]
             ELSE [mem |-> mem, file |-> file1, d |-> <<>>, raised |-> TRUE]

RECURSIVE FirstLowerMatch(_, _, _)
\* the first item, in insertion order, whose source.lower() == text.lower()
FirstLowerMatch(items, text, i) ==
    IF i > Len(items) THEN None
    ELSE IF TextIsLower(text, items[i][1]) THEN Str(Word(items[i][2]))
    ELSE FirstLowerMatch(items, text, i + 1)

RECURSIVE ExactMatch(_, _, _)
\* lines 146-156: exact, then case-insensitive, per category in priority order
ExactMatch(d, text, c) ==
    IF c > Len(_priority_categories) THEN None
    ELSE LET category == _priority_categories[c]
         IN  IF ~DictHas(d, category) THEN ExactMatch(d, text, c + 1)
             ELSE LET items == DictGet(d, category)
                  IN  IF \E j \in 1..Len(items) : TextIs(text, items[j][1])
                      THEN Str(Word(items[CHOOSE j \in 1..Len(items) :
                                              TextIs(text, items[j][1])][2]))
                      ELSE LET m == FirstLowerMatch(items, text, 1)
                           IN  IF m # None THEN m ELSE ExactMatch(d, text, c + 1)

\* re.search(r'\b' + source + r'\b', result, re.IGNORECASE)
TermFound(result, source) ==
    LET k == KeyText(source)
    IN  \E i \in 1..(Len(result) - Len(k) + 1) :
            \A j \in 1..Len(k) :
                /\ Lower(result[i + j - 1].w) = Lower(k[j].w)
                /\ j < Len(k) => result[i + j - 1].p = ""

\* re.sub(pattern, translation, result, flags=re.IGNORECASE)
TermSub(result, source, translation) ==
    [i \in 1..Len(result) |->
        IF Lower(result[i].w) = Lower(source)
        THEN [w |-> translation, p |-> result[i].p]
        ELSE result[i]]

\* translate_service.py lines 143-146: the term, in lower case, is the text
\* or stands in it between spaces or the ends
TermStandalone(text, source) ==
    LET k == KeyText(source)
    IN  \E i \in 1..(Len(text) - Len(k) + 1) :
            \A j \in 1..Len(k) :
                /\ Lower(text[i + j - 1].w) = Lower(k[j].w)
                /\ text[i + j - 1].p = ""

\* translate_service.py lines 131-150: the keys of dictionary_mappings, the
\* terms of every category of the dictionary d found in the text
dictionary_mappings(d, text) ==
    UNION {{d[i][2][j][1] : j \in {n \in 1..Len(d[i][2]) :
                                     /\ d[i][2][n][1] \notin {"", " "}
                                     /\ TermStandalone(text, d[i][2][n][1])}} :
           i \in 1..Len(d)}

\* SystemPrompt.REFERENCES (models/llm.py lines 151-167) of the dict
\* dictionary_mappings: the loop `for ref in references` runs over the keys
\* of the dict, which are str, and keeps a ref only if the substrings "term"
\* and "translation" are both in it; no term of the model has them, so no
\* line is added.  The result is the sequence of lines <<term, translation>>.
REFERENCES(references) ==
    LET kept == {ref \in references : FALSE}
    IN  IF kept = {} THEN <<>> ELSE <<"TypeError">>

RECURSIVE SubItems(_, _, _)
\* lines 166-172 for one category: acc is [result, replacements_made]
SubItems(items, acc, i) ==
    IF i > Len(items) THEN acc
    ELSE LET source == items[i][1]
             translation == items[i][2]
         IN  IF WLen(source) > 2 /\ TermFound(acc.result, source)
             THEN SubItems(items,
                           [result |-> TermSub(acc.result, source, translation),
                            replacements_made |-> TRUE], i + 1)
             ELSE SubItems(items, acc, i + 1)

RECURSIVE SubCategories(_, _, _)
\* lines 164-172: every category in priority order
SubCategories(d, acc, c) ==
    IF c > Len(_priority_categories) THEN acc
    ELSE LET category == _priority_categories[c]
         IN  IF DictHas(d, category)
             THEN SubCategories(d, SubItems(DictGet(d, category), acc, 1), c + 1)
             ELSE SubCategories(d, acc, c + 1)

\* contains_untranslated with the check of lines 181-190 left out
contains_untranslated_unchecked(text, result) == FALSE

\* lines 177-190: an ASCII-alphabetic word of the original is a word of the result
contains_untranslated(text, result) ==
    \E i \in 1..Len(text) :
        /\ ~(TokLen(text[i]) <= 1 \/ (text[i].p = "" /\ IsDigit(text[i].w)))
        /\ text[i].p = "" /\ IsAsciiAlpha(text[i].w)
        /\ \E j \in 1..Len(result) :
              result[j].p = "" /\ Lower(result[j].w) = Lower(text[i].w)

\* lines 158-198, the partial match: [ret, result, replacements_made]
PartialMatch(d, text) ==
    LET acc == SubCategories(d, [result |-> text, replacements_made |-> FALSE], 1)
    IN  IF acc.replacements_made
        THEN IF contains_untranslated(text, acc.result)
             THEN [ret |-> None, result |-> acc.result, replacements_made |-> TRUE]
             ELSE [ret |-> Str(acc.result), result |-> acc.result,
                   replacements_made |-> TRUE]
        ELSE [ret |-> None, result |-> text, replacements_made |-> FALSE]

\* what get_translation returns before it reaches the partial match
Early(mem, file, ret, text, raised) ==
    [mem |-> mem, file |-> file, ret |-> ret, result |-> text,
     replacements_made |-> FALSE, raised |-> raised]

\* a lookup that substitutes in texts of every length
ReferenceOnlyNever(text) == FALSE

\* line 137
ReferenceOnly(text) == TextLen(text) > MAX_DIRECT_REPLACEMENT_LENGTH /\ HasSpace(text)

\* get_translation: [mem, file, ret, result, replacements_made, raised];
\* result and replacements_made are its local variables of those names
get_translation(mem, file, text, lang, io) ==
    IF text = <<>> THEN Early(mem, file, Str(text), text, FALSE)
    ELSE IF ReferenceOnly(text) THEN Early(mem, file, None, text, FALSE)
    ELSE LET g == get_dictionary(mem, file, lang, io)
         IN  IF g.raised THEN Early(g.mem, g.file, None, text, TRUE)
             ELSE IF g.d = <<>> THEN Early(g.mem, g.file, None, text, FALSE)
             ELSE LET e == ExactMatch(g.d, text, 1)
                      p == PartialMatch(g.d, text)
                  IN  IF e # None THEN Early(g.mem, g.file, e, text, FALSE)
                      ELSE [mem |-> g.mem, file |-> g.file, ret |-> p.ret,
                            result |-> p.result,
                            replacements_made |-> p.replacements_made,
                            raised |-> FALSE]

\* an add that keeps nothing
add_translation_nothing(mem, file, text, translation, lang, category, confidence, io) ==
    [mem |-> mem, file |-> file, ok |-> FALSE]

\* line 285: not w or not w.strip()
IsBlank(w) == w \in {"", " "}

\* add_translation: [mem, file, ok]; text and translation are words,
\* confidence is in tenths
add_translation(mem, file, text, translation, lang, category, confidence, io) ==
    IF IsBlank(text) \/ IsBlank(translation) THEN [mem |-> mem, file |-> file, ok |-> FALSE]
    ELSE IF confidence < 5 THEN [mem |-> mem, file |-> file, ok |-> FALSE]
    ELSE IF WLen(text) > MAX_DIRECT_REPLACEMENT_LENGTH
    THEN [mem |-> mem, file |-> file, ok |-> FALSE]
    ELSE IF OnlyDigitsOrNonWord(text) THEN [mem |-> mem, file |-> file, ok |-> FALSE]
    ELSE LET d0 == IF mem[lang].loaded THEN mem[lang].d ELSE <<>>
             d1 == IF DictHas(d0, category) THEN d0 ELSE Append(d0, <<category, <<>> >>)
             d2 == DictPut(d1, category, DictPut(DictGet(d1, category), text, translation))
             mem2 == [mem EXCEPT ![lang] = [loaded |-> TRUE, d |-> d2]]
         IN  IF io
             THEN [mem |-> mem2,
                   file |-> [file EXCEPT ![lang] = [exists |-> TRUE, d |-> d2]],
                   ok |-> TRUE]
             ELSE [mem |-> mem2, file |-> file, ok |-> FALSE]

RECURSIVE RefItems(_, _, _, _)
\* lines 225-233 for one category
RefItems(items, text, refs, i) ==
    IF i > Len(items) THEN refs
    ELSE IF WLen(items[i][1]) > 2 /\ TermFound(text, items[i][1])
    THEN RefItems(items, text, Append(refs, items[i]), i + 1)
    ELSE RefItems(items, text, refs, i + 1)

RECURSIVE RefCategories(_, _, _, _)
\* lines 223-233: every category in priority order
RefCategories(d, text, refs, c) ==
    IF c > Len(_priority_categories) THEN refs
    ELSE LET category == _priority_categories[c]
         IN  IF DictHas(d, category)
             THEN RefCategories(d, text, RefItems(DictGet(d, category), text, refs, 1), c + 1)
             ELSE RefCategories(d, text, refs, c + 1)

\* get_prompt_references: [mem, file, refs, raised]; refs are <<term, translation>>
get_prompt_references(mem, file, text, lang, io) ==
    IF text = <<>> THEN [mem |-> mem, file |-> file, refs |-> <<>>, raised |-> FALSE]
    ELSE LET g == get_dictionary(mem, file, lang, io)
         IN  IF g.raised
             THEN [mem |-> g.mem, file |-> g.file, refs |-> <<>>, raised |-> TRUE]
             ELSE [mem |-> g.mem, file |-> g.file,
                   refs |-> RefCategories(g.d, text, <<>>, 1), raised |-> FALSE]

\* The word_mapping value of a model response: a list of entries, the empty
\* string that .get("word_mapping", "") defaults to, or None.
WmList(items) == [ty |-> "list", items |-> items]
WmEmptyStr == [ty |-> "str", items |-> <<>>]
WmNone == [ty |-> "none", items |-> <<>>]
\* an entry; wellformed = it is a dict holding word, translation and category
WmEntry(word, translation, category) ==
    [word |-> word, translation |-> translation, category |-> category,
     wellformed |-> TRUE]

RECURSIVE ProcessItems(_, _, _, _, _, _)
\* lines 245-267
ProcessItems(mem, file, items, lang, io, i) ==
    IF i > Len(items) THEN [mem |-> mem, file |-> file, raised |-> FALSE]
    ELSE IF ~items[i].wellformed THEN [mem |-> mem, file |-> file, raised |-> TRUE]
    ELSE LET category == IF items[i].category = "" THEN "custom_terms"
                         ELSE items[i].category
             a == add_translation(mem, file, items[i].word, items[i].translation,
                                  lang, category, 9, io)
         IN  ProcessItems(a.mem, a.file, items, lang, io, i + 1)

\* process_word_mapping: [mem, file, raised]; iterating None raises TypeError
process_word_mapping(mem, file, word_mapping, lang, io) ==
    IF word_mapping.ty = "none" THEN [mem |-> mem, file |-> file, raised |-> TRUE]
    ELSE ProcessItems(mem, file, word_mapping.items, lang, io, 1)

\* reload_dictionary: [mem, file, raised]
reload_dictionary(mem, file, lang, io) ==
    LET g == get_dictionary([mem EXCEPT ![lang] = NotLoaded], file, lang, io)
    IN  [mem |-> g.mem, file |-> g.file, raised |-> g.raised]


---------------------------------------------------------------------------
(* History store: translate_history.py.  The timestamp of a record is      *)
(* written and never read; the records of the model leave it out.          *)

_max_history_per_lang_pair == 10

NoScore == [some |-> FALSE, v |-> 0]
Score(n) == [some |-> TRUE, v |-> n]
NoFeedback == "<None>"

\* key = f"{source_lang}:{target_lang}"
HistKey(source_lang, target_lang) == source_lang \o ":" \o target_lang

\* [item for item in items if item.get('source_text') != source_text]
RECURSIVE Without(_, _)
Without(items, source_text) ==
    IF items = <<>> THEN <<>>
    ELSE IF items[1].source_text = source_text THEN Without(Tail(items), source_text)
    ELSE <<items[1]>> \o Without(Tail(items), source_text)

\* items[-n:]
LastN(items, n) ==
    IF Len(items) > n THEN SubSeq(items, Len(items) - n + 1, Len(items)) ELSE items

\* items[:n]
FirstN(items, n) == IF Len(items) > n THEN SubSeq(items, 1, n) ELSE items

\* get_history
get_history(h, source_lang, target_lang) ==
    IF DictHas(h, HistKey(source_lang, target_lang))
    THEN DictGet(h, HistKey(source_lang, target_lang))
    ELSE <<>>

HistoryRecord(source_text, translated_text, quality_score, feedback) ==
    [source_text |-> source_text, translated_text |-> translated_text,
     quality_score |-> quality_score, feedback |-> feedback]

\* add_history that keeps the oldest records when it truncates
add_history_keep_oldest(h, source_lang, target_lang, source_text, translated_text, quality_score, feedback) ==
    LET items == get_history(h, source_lang, target_lang)
        more == Append(Without(items, source_text),
                       HistoryRecord(source_text, translated_text, quality_score, feedback))
    IN  DictPut(h, HistKey(source_lang, target_lang),
                FirstN(more, _max_history_per_lang_pair))

\* add_history that does not remove the record of the same source text
add_history_no_dedup(h, source_lang, target_lang, source_text, translated_text, quality_score, feedback) ==
    LET items == get_history(h, source_lang, target_lang)
        more == Append(items,
                       HistoryRecord(source_text, translated_text, quality_score, feedback))
    IN  DictPut(h, HistKey(source_lang, target_lang),
                LastN(more, _max_history_per_lang_pair))

\* add_history that drops the quality score of the call
add_history_no_score(h, source_lang, target_lang, source_text, translated_text, quality_score, feedback) ==
    LET items == get_history(h, source_lang, target_lang)
        more == Append(Without(items, source_text),
                       HistoryRecord(source_text, translated_text, NoScore, feedback))
    IN  DictPut(h, HistKey(source_lang, target_lang),
                LastN(more, _max_history_per_lang_pair))

\* add_history that writes its record onto a stale, empty copy of _history
add_history_stale(h, source_lang, target_lang, source_text, translated_text, quality_score, feedback) ==
    DictPut(<<>>, HistKey(source_lang, target_lang),
            <<HistoryRecord(source_text, translated_text, quality_score, feedback)>>)

\* add_history, lines 26-45: the new value of _history
add_history(h, source_lang, target_lang, source_text, translated_text, quality_score, feedback) ==
    LET items == get_history(h, source_lang, target_lang)
        more == Append(Without(items, source_text),
                       HistoryRecord(source_text, translated_text, quality_score, feedback))
    IN  DictPut(h, HistKey(source_lang, target_lang),
                LastN(more, _max_history_per_lang_pair))

\* _save_history: the new content of the file; a failed write is swallowed
_save_history(file, h, io) == IF io THEN h ELSE file

---------------------------------------------------------------------------
(* Settings, cache and response parsing: settings.py, translate_service.py,*)
(* string_utils.py                                                         *)

QUALITY_THRESHOLD == 90
MAX_IMPROVEMENT_ATTEMPTS == 3
MIN_TEXT_LENGTH_FOR_EVALUATION == 8
MAX_TEXT_LENGTH_FOR_EVALUATION == 1000

\* bool(v) and len(v) of a str or dict
Truthy(v) == (v.ty = "str" /\ v.s # <<>>) \/ (v.ty = "dict" /\ v.keys # <<>>)
PyLen(v) == IF v.ty = "str" THEN TextLen(v.s) ELSE Len(v.keys)

\* d.get(k, default)
PyGet(d, k, default) == IF DictHas(d, k) THEN DictGet(d, k) ELSE default

\* The cache is a dict; its oldest `fillers` entries are entries of keys that
\* no request of the model asks for, and are kept as their number.
CacheLen(c) == c.fillers + Len(c.entries)

\* cache_key = f"{source_lang}:{target_lang}:{text}"
CacheKey(source_lang, target_lang, text) == <<source_lang, target_lang, text>>

\* a put that keeps the value a key already has
CachePutIfAbsent(c, cache_key, v) ==
    IF DictHas(c.entries, cache_key) THEN c
    ELSE [c EXCEPT !.entries = Append(c.entries, <<cache_key, v>>)]

\* a put that stores nothing
CachePutNothing(c, cache_key, v) == c

\* translation_cache[cache_key] = v
CachePut(c, cache_key, v) == [c EXCEPT !.entries = DictPut(c.entries, cache_key, v)]

\* lines 269-273: over 1000 entries, the first 100 keys are popped
CacheEvict(c) ==
    IF CacheLen(c) > 1000
    THEN LET f == IF c.fillers >= 100 THEN 100 ELSE c.fillers
         IN  [fillers |-> c.fillers - f,
              entries |-> SubSeq(c.entries, 100 - f + 1, Len(c.entries))]
    ELSE c

\* The content of a backend response: a JSON object (its pairs), the empty
\* string, or text that is not JSON; or the exception the call ends with.
Object(obj) == [kind |-> "object", obj |-> obj]
Other(kind) == [kind |-> kind, obj |-> <<>>]

\* parse_llm_json_response of a str content: always a dict
parse_llm_json_response(content) ==
    CASE content.kind = "empty" -> << <<"error", "empty">> >>
      [] content.kind = "garbage" ->
           << <<"error", "parse">>, <<"original_content", "garbage">> >>
      [] OTHER -> content.obj

\* translate_text, lines 205-211: [translated_text, word_mapping]
ParseTranslation(content) ==
    LET response_content == parse_llm_json_response(content)
        translated_text == PyGet(response_content, "translation", Str(<<>>))
    IN  [translated_text |->
            IF Truthy(translated_text) THEN translated_text
            ELSE PyDict([i \in 1..Len(response_content) |-> response_content[i][1]]),
         word_mapping |-> PyGet(response_content, "word_mapping", WmEmptyStr)]

---------------------------------------------------------------------------
(* Evaluator: translate_evaluator.py *)

FeedbackOf(score) == "feedback " \o ToString(score)

\* lines 106-112: the results evaluate_translation gives without a backend
\* call; score -1 stands for "none of them"
TrivialEvaluation(source_text, translated_text) ==
    IF TextLen(source_text) < 3 \/ PyLen(translated_text) < 3
    THEN [score |-> 95, feedback |-> "too short"]
    ELSE IF Str(source_text) = translated_text
    THEN [score |-> 100, feedback |-> "no translation needed"]
    ELSE [score |-> -1, feedback |-> ""]

\* JSON values of the key "score": an integer, a number with one decimal
\* (kept in tenths), a string that is not a number, null
JInt(n) == [ty |-> "int", n |-> n]
JFloat(tenths) == [ty |-> "float", n |-> tenths]
JText == [ty |-> "str", n |-> 0]
JNull == [ty |-> "null", n |-> 0]

\* int(v), line 158: truncation toward zero, ValueError for the string,
\* TypeError for None
PyInt(v) ==
    CASE v.ty = "int" -> [raised |-> "", n |-> v.n]
      [] v.ty = "float" ->
           [raised |-> "", n |-> IF v.n >= 0 THEN v.n \div 10 ELSE -((-v.n) \div 10)]
      [] v.ty = "str" -> [raised |-> "ValueError", n |-> 0]
      [] OTHER -> [raised |-> "TypeError", n |-> 0]

\* a score passed on as converted
ClampNothing(score) == score

\* line 162: max(0, min(score, 100))
Clamp(score) == IF score < 0 THEN 0 ELSE IF score > 100 THEN 100 ELSE score

\* lines 150-188 on the response of the backend: [score, feedback, stored,
\* log]; stored tells that line 165 was reached, log is the error logged
EvaluationResult(content) ==
    IF content.kind \in {"object", "empty", "garbage"}
    THEN LET evaluation == parse_llm_json_response(content)
             score == PyInt(PyGet(evaluation, "score", JInt(0)))
         IN  IF score.raised = ""
             THEN [score |-> Clamp(score.n),
                   feedback |-> PyGet(evaluation, "feedback", "no feedback"),
                   stored |-> TRUE, log |-> ""]
             ELSE IF score.raised = "ValueError"
             THEN [score |-> 70, feedback |-> "evaluation parse failure",
                   stored |-> FALSE, log |-> "json_parse_error"]
             ELSE [score |-> 70, feedback |-> "evaluation error",
                   stored |-> FALSE, log |-> "evaluation_error"]
    ELSE [score |-> 70, feedback |-> "evaluation error", stored |-> FALSE,
          log |-> "evaluation_error"]

\* a store that drops nothing
store_evaluation_history_unbounded(h, source_text, evaluation) ==
    DictPut(h, source_text, Append(PyGet(h, source_text, <<>>), evaluation))

\* store_evaluation_history: the new _evaluation_history
store_evaluation_history(h, source_text, evaluation) ==
    LET items == PyGet(h, source_text, <<>>)
        kept == IF Len(items) >= 5 THEN Tail(items) ELSE items
    IN  DictPut(h, source_text, Append(kept, evaluation))

\* evaluate_translation as a whole, content being what the backend answers
\* if it is asked: [score, feedback, h, trivial, log], h the new
\* _evaluation_history
evaluate_translation(h, source_text, translated_text, content) ==
    LET t == TrivialEvaluation(source_text, translated_text)
        e == EvaluationResult(content)
    IN  IF t.score >= 0
        THEN [score |-> t.score, feedback |-> t.feedback, h |-> h,
              trivial |-> TRUE, log |-> ""]
        ELSE [score |-> e.score, feedback |-> e.feedback,
              h |-> IF e.stored
                    THEN store_evaluation_history(h, source_text,
                             [score |-> e.score, feedback |-> e.feedback,
                              translated_text |-> translated_text])
                    ELSE h,
              trivial |-> FALSE, log |-> e.log]

\* improve_translation, lines 246-289, on the response of the backend:
\* [translation, word_mapping]
ImprovementResult(previous_translation, word_mapping, content) ==
    IF content.kind \in {"object", "empty", "garbage"}
    THEN LET evaluation == parse_llm_json_response(content)
             improved_translation == PyGet(evaluation, "translation", Str(<<>>))
         IN  IF ~Truthy(improved_translation)
             THEN [translation |-> previous_translation, word_mapping |-> WmNone]
             ELSE [translation |-> improved_translation,
                   word_mapping |-> PyGet(evaluation, "word_mapping", WmEmptyStr)]
    ELSE [translation |-> previous_translation, word_mapping |-> word_mapping]

---------------------------------------------------------------------------
(* Orchestrator: consistent_translator.py, translate_service.py.  A request*)
(* is a record of the locals of translate, translate_text and              *)
(* translate_evaluator, its position (pc), its outcome (ret, status,       *)
(* detail, logged), and a trace of what it did: content (the backend's answer to   *)
(* the translation call), initial (the translation handed to the           *)
(* evaluator), observed (the <<candidate, score>> of each evaluation),     *)
(* calls, touched, prev (the request whose successful return was the step  *)
(* before this one was issued), stored (the value it put in the cache) and *)
(* answer (how its latest evaluation or improvement call ended).           *)

Idle ==
    [pc |-> "idle", source_lang |-> "", target_lang |-> "", text |-> <<>>,
     system_prompt |-> [custom |-> <<>>, previous |-> <<>>, references |-> <<>>],
     translated_text |-> None, word_mapping |-> WmEmptyStr,
     quality_score |-> 0, feedback |-> NoFeedback, in_loop |-> FALSE,
     attempts |-> 0, current_translation |-> None, improved_translation |-> None,
     best_score |-> 0, best_translation |-> None, best_feedback |-> NoFeedback,
     ret |-> None, status |-> 0, detail |-> "", logged |-> {},
     content |-> Other("none"), initial |-> None, observed |-> <<>>,
     calls |-> [translate |-> 0, evaluate |-> 0, improve |-> 0],
     touched |-> {}, prev |-> 0, stored |-> None, answer |-> "none"]

\* the module state a request works on
Globals ==
    [mem |-> dictMem, file |-> dictFile, history |-> history, histFile |-> histFile,
     cache |-> translation_cache]

\* an exception that reaches the caller as an internal error whatever it was
RaiseInternal(q, status) == [q EXCEPT !.pc = "failed", !.status = 500]

\* return of a value, and an exception that leaves translate
Return(q, v) == [q EXCEPT !.pc = "done", !.ret = v, !.status = 200]
Raise(q, status) == [q EXCEPT !.pc = "failed", !.status = status]

\* translate_text, lines 79-80
EffectiveSource(source_lang) == IF source_lang = "" THEN "auto" ELSE source_lang

\* a same-language test that never holds
SameLanguageNever(source_lang, target_lang) == FALSE

\* consistent_translator.py line 44
SameLanguage(source_lang, target_lang) == source_lang = target_lang

\* a tail whose dictionary step lets its exception leave translate_text
FinishPropagates(q, g) ==
    LET w == process_word_mapping(g.mem, g.file, q.word_mapping, q.target_lang, diskOK)
        h == add_history(g.history, EffectiveSource(q.source_lang), q.target_lang, q.text,
                         q.translated_text, NoScore, NoFeedback)
    IN  [q |-> IF w.raised THEN Raise(q, 500) ELSE Return(q, q.translated_text),
         g |-> [mem |-> w.mem, file |-> w.file, history |-> h,
                histFile |-> _save_history(g.histFile, h, diskOK), cache |-> g.cache]]

\* translate_text, lines 246-282: log, history, cache, learned terms, return
Finish(q, g) ==
    LET source_lang == EffectiveSource(q.source_lang)
        h == add_history(g.history, source_lang, q.target_lang, q.text,
                         q.translated_text, NoScore, NoFeedback)
        c == IF settings.ENABLE_CACHE
             THEN CacheEvict(CachePut(g.cache, CacheKey(source_lang, q.target_lang, q.text),
                                      q.translated_text))
             ELSE g.cache
        w == process_word_mapping(g.mem, g.file, q.word_mapping, q.target_lang, diskOK)
    IN  [q |-> [Return(q, q.translated_text) EXCEPT
                  !.stored = IF settings.ENABLE_CACHE THEN q.translated_text ELSE None,
                  !.touched = @ \cup {"history", "dictionary"}
                                \cup (IF settings.ENABLE_CACHE THEN {"cache"} ELSE {})],
         g |-> [mem |-> w.mem, file |-> w.file, history |-> h,
                histFile |-> _save_history(g.histFile, h, diskOK), cache |-> c]]

\* translate_text, lines 79-200: up to the backend call
translate_text(q, g) ==
    LET source_lang == EffectiveSource(q.source_lang)
        cache_key == CacheKey(source_lang, q.target_lang, q.text)
        t == IF settings.ENABLE_DICTIONARY
             THEN get_translation(g.mem, g.file, q.text, q.target_lang, diskOK)
             ELSE Early(g.mem, g.file, None, q.text, FALSE)
        g1 == [g EXCEPT !.mem = t.mem, !.file = t.file]
        q1 == [q EXCEPT !.touched = @ \cup (IF settings.ENABLE_CACHE THEN {"cache"} ELSE {})
                                      \cup (IF settings.ENABLE_DICTIONARY
                                            THEN {"dictionary"} ELSE {})]
        h == add_history(g.history, source_lang, q.target_lang, q.text, t.ret,
                         Score(100), NoFeedback)
        previous_translations == get_history(g.history, source_lang, q.target_lang)
        shown == LastN(previous_translations, 5)
    IN  IF q.text = <<>> THEN [q |-> Return(q, Str(<<>>)), g |-> g]
        ELSE IF settings.ENABLE_CACHE /\ DictHas(g.cache.entries, cache_key)
        THEN [q |-> [Return(q, DictGet(g.cache.entries, cache_key)) EXCEPT
                       !.touched = @ \cup {"cache"}],
              g |-> g]
        ELSE IF t.raised THEN [q |-> Raise(q1, 500), g |-> g1]
        ELSE IF settings.ENABLE_DICTIONARY /\ t.ret # None
        THEN [q |-> [Return(q1, t.ret) EXCEPT
                       !.touched = @ \cup {"history"},
                       !.stored = IF settings.ENABLE_CACHE THEN t.ret ELSE None],
              g |-> [g1 EXCEPT !.history = h,
                               !.histFile = _save_history(g.histFile, h, diskOK),
                               !.cache = IF settings.ENABLE_CACHE
                                         THEN CachePut(g.cache, cache_key, t.ret)
                                         ELSE g.cache]]
        ELSE [q |-> [q1 EXCEPT
                       !.pc = "translate", !.calls.translate = @ + 1,
                       !.touched = @ \cup {"backend"},
                       !.system_prompt.previous =
                           IF q.system_prompt.custom = <<>>
                           THEN [i \in 1..Len(shown) |->
                                   <<shown[i].source_text, shown[i].translated_text>>]
                           ELSE <<>>,
                       !.system_prompt.references =
                           IF q.system_prompt.custom = <<>> /\ settings.ENABLE_DICTIONARY
                           THEN REFERENCES(dictionary_mappings(g1.mem[q.target_lang].d,
                                                               q.text))
                           ELSE <<>>],
              g |-> g1]

\* ConsistentTranslator.translate
translate(q, g) ==
    LET p == get_prompt_references(g.mem, g.file, q.text, q.target_lang, diskOK)
        g1 == [g EXCEPT !.mem = p.mem, !.file = p.file]
        q1 == [q EXCEPT !.touched = @ \cup {"dictionary"},
                        !.system_prompt.custom = p.refs]
    IN  IF q.source_lang = ""
        THEN [q |-> [Raise(q, 500) EXCEPT !.detail = "source_lang is required"],
              g |-> g]
        ELSE IF SameLanguage(q.source_lang, q.target_lang)
        THEN [q |-> Return(q, Str(q.text)), g |-> g]
        ELSE IF q.text = <<>> THEN [q |-> Return(q, Str(<<>>)), g |-> g]
        ELSE IF p.raised THEN [q |-> Raise(q1, 500), g |-> g1]
        ELSE translate_text(q1, g1)

\* a comparison that adopts every evaluated candidate
IsBetterAlways(improved_score, best_score) == TRUE

\* line 379
IsBetter(improved_score, best_score) == improved_score > best_score

\* a test that sends a score equal to the threshold into the loop
BelowOrAtThreshold(quality_score) == quality_score <= QUALITY_THRESHOLD

\* line 323
BelowThreshold(quality_score) == quality_score < QUALITY_THRESHOLD

\* a test that never ends the loop on a score
MeetsThresholdNever(improved_score) == FALSE

\* line 386
MeetsThreshold(improved_score) == improved_score >= QUALITY_THRESHOLD

\* lines 401-404
AfterLoop(q) ==
    [q EXCEPT !.pc = "finish", !.translated_text = q.best_translation,
              !.quality_score = q.best_score, !.feedback = q.best_feedback]

\* line 333, and the call of improve_translation of line 340.  Before its
\* try block improve_translation passes previous_translation to
\* clean_special_chars (translate_evaluator.py line 214), whose re.sub raises
\* TypeError for a value that is not a str; the loop catches it (line 396)
\* and counts the attempt (line 399).
RECURSIVE LoopHead(_)
LoopHead(q) ==
    IF q.attempts < MAX_IMPROVEMENT_ATTEMPTS
    THEN IF q.current_translation.ty = "str"
         THEN [q EXCEPT !.pc = "improve", !.calls.improve = @ + 1]
         ELSE LoopHead([q EXCEPT !.calls.improve = @ + 1, !.answer = "TypeError",
                                 !.attempts = @ + 1])
    ELSE AfterLoop(q)

\* a failed attempt that is not counted
AttemptFailedNoCount(q) == LoopHead(q)

\* lines 394-399: a timeout or an exception inside an attempt
AttemptFailed(q) == LoopHead([q EXCEPT !.attempts = @ + 1])

\* what follows an evaluation result e: lines 314-331 for the first
\* evaluation, lines 368-399 for the evaluation of an improved translation
Evaluated(q, e) ==
    LET candidate == IF q.in_loop THEN q.improved_translation ELSE q.translated_text
        q1 == [q EXCEPT !.observed = Append(@, <<candidate, e.score>>)]
        first == [q1 EXCEPT !.quality_score = e.score, !.feedback = e.feedback]
        better == IF IsBetter(e.score, q.best_score)
                  THEN [q1 EXCEPT !.best_score = e.score,
                                  !.best_translation = q.improved_translation,
                                  !.best_feedback = e.feedback]
                  ELSE q1
    IN  IF ~q.in_loop
        THEN IF BelowThreshold(e.score)
             THEN LoopHead([first EXCEPT !.in_loop = TRUE, !.attempts = 0,
                                         !.current_translation = q.translated_text,
                                         !.best_score = e.score,
                                         !.best_translation = q.translated_text,
                                         !.best_feedback = e.feedback])
             ELSE [first EXCEPT !.pc = "finish"]
        ELSE IF MeetsThreshold(e.score) THEN AfterLoop(better)
        ELSE LoopHead([better EXCEPT !.current_translation = q.improved_translation,
                                     !.feedback = e.feedback, !.attempts = @ + 1])

\* the call of evaluate_translation: answered at once (lines 106-112) or
\* sent to the backend
Evaluate(q) ==
    LET candidate == IF q.in_loop THEN q.improved_translation ELSE q.translated_text
        e == TrivialEvaluation(q.text, candidate)
        q1 == [q EXCEPT !.calls.evaluate = @ + 1]
    IN  IF e.score >= 0 THEN Evaluated(q1, e) ELSE [q1 EXCEPT !.pc = "evaluate"]

\* a loop that evaluates every result of improve_translation
ImprovedAlwaysEvaluate(q, i) ==
    Evaluate([q EXCEPT !.improved_translation = i.translation,
                       !.word_mapping = i.word_mapping])

\* lines 340-355: the result i of improve_translation
Improved(q, i) ==
    LET q1 == [q EXCEPT !.improved_translation = i.translation,
                        !.word_mapping = i.word_mapping]
    IN  IF i.translation = q.current_translation THEN AfterLoop(q1) ELSE Evaluate(q1)

\* a service that evaluates every translation
ShouldEvaluateAlways(text, translated_text) == TRUE

\* translate_text, lines 233-236
ShouldEvaluate(text, translated_text) ==
    /\ settings.ENABLE_EVALUATION
    /\ TextLen(text) >= MIN_TEXT_LENGTH_FOR_EVALUATION
    /\ TextLen(text) <= MAX_TEXT_LENGTH_FOR_EVALUATION
    /\ PyLen(translated_text) >= 2

\* translate_text, lines 201-244, on the content of the backend's response
Translated(q, content) ==
    LET p == ParseTranslation(content)
        q1 == [q EXCEPT !.content = content, !.translated_text = p.translated_text,
                        !.word_mapping = p.word_mapping]
    IN  IF content.kind = "RequestError"
        THEN [Raise(q, 503) EXCEPT !.content = content, !.logged = @ \cup {"connection_error"}]
        ELSE IF content.kind = "Exception" THEN [Raise(q, 500) EXCEPT !.content = content]
        ELSE IF ~Truthy(p.translated_text)
        THEN [Raise(q1, 500) EXCEPT !.logged = @ \cup {"empty_response"}]
        ELSE IF ShouldEvaluate(q.text, p.translated_text)
        THEN Evaluate([q1 EXCEPT !.initial = p.translated_text])
        ELSE [q1 EXCEPT !.pc = "finish"]

Reqs == {1, 2}

\* the service at rest, for the behaviours that call the stores directly
InitUnused ==
    /\ settings = [ENABLE_CACHE |-> TRUE, ENABLE_DICTIONARY |-> TRUE,
                   ENABLE_EVALUATION |-> FALSE]
    /\ translation_cache = [fillers |-> 0, entries |-> <<>>]
    /\ _evaluation_history = <<>>
    /\ req = [r \in Reqs |-> Idle]
    /\ env = [requests |-> 0]
    /\ lastDone = 0

---------------------------------------------------------------------------
(* The dictionary on its own: direct calls of DictionaryManager's methods *)

Langs == {"ko", "en"}
\* the language of the direct calls
DictLangs == {"ko"}

\* the most entries the in-memory dictionaries hold together
MaxEntries == 3

NoCall ==
    [op |-> "none", text |-> <<>>, term |-> "", translation |-> "",
     category |-> "", lang |-> "", source_lang |-> "", target_lang |-> "",
     translated_text |-> None, quality_score |-> NoScore,
     feedback |-> NoFeedback, present |-> FALSE,
     ok |-> FALSE, ret |-> None, result |-> <<>>,
     replacements_made |-> FALSE, raised |-> FALSE,
     code |-> <<>>, normalized |-> <<>>, twice |-> <<>>, confidence |-> 0]

\* a dictionary file a translator has prepared by hand
SeedFile ==
    [exists |-> TRUE,
     d |-> << <<"character_names", << <<"Sara", "<sara>">> >> >>,
              <<"place_names", <<>> >>,
              <<"custom_terms", << <<LongPhrase, "<salami>">> >> >>,
              <<"ui", << <<"hello", "ok">> >> >> >>]

AddWords == {"Sara", "hello", "", " ", "42", LongWord}
AddTranslations == {"<sara>", "<annyeong>", "", " "}
AddCategories == {"ui", "proper_nouns"}
Confidences == {5, 4}

GetTexts ==
    { <<>>, Word("Sara"), Word("sara"), <<TokP("Sara")>>,
      <<Tok("hello"), Tok("Sara")>>, <<Tok("Sara"), Tok("42")>>,
      <<Tok(LongWord), Tok("Sara")>> }

RECURSIVE CountItems(_, _)
\* the entries of a dictionary, over its categories
CountItems(d, i) == IF i > Len(d) THEN 0 ELSE Len(d[i][2]) + CountItems(d, i + 1)

\* the entries the in-memory dictionaries hold together
Entries(mem) == CountItems(mem["ko"].d, 1) + CountItems(mem["en"].d, 1)

InitDict ==
    /\ dictMem = [l \in Langs |-> NotLoaded]
    /\ dictFile \in {[l \in Langs |-> NoFile],
                     [l \in Langs |-> IF l = "ko" THEN SeedFile ELSE NoFile]}
    /\ diskOK \in BOOLEAN
    /\ call = NoCall
    /\ history = <<>>
    /\ histFile = <<>>
    /\ added = <<>>
    /\ InitUnused

\* a text or a translation that add_translation refuses comes with
\* arguments that are otherwise acceptable
DoAddTranslation ==
    \E text \in AddWords, translation \in AddTranslations, lang \in DictLangs,
       category \in AddCategories, confidence \in Confidences :
        LET a == add_translation(dictMem, dictFile, text, translation, lang,
                                 category, confidence, diskOK)
        IN  /\ Entries(a.mem) <= MaxEntries
            /\ \/ text \in {"Sara", "hello"} /\ ~IsBlank(translation)
               \/ translation = "<sara>" /\ category = "ui" /\ confidence = 5
               \/ text = "Sara" /\ category = "ui" /\ confidence = 5
            /\ dictMem' = a.mem
            /\ dictFile' = a.file
            /\ call' = [NoCall EXCEPT !.op = "add", !.term = text,
                                      !.translation = translation,
                                      !.category = category, !.lang = lang,
                                      !.confidence = confidence, !.ok = a.ok]
            /\ UNCHANGED <<diskOK, histVars, svcVars>>

DoGetTranslation ==
    \E text \in GetTexts, lang \in DictLangs :
        LET g == get_translation(dictMem, dictFile, text, lang, diskOK)
        IN  /\ dictMem' = g.mem
            /\ dictFile' = g.file
            /\ call' = [NoCall EXCEPT !.op = "get", !.text = text, !.lang = lang,
                                      !.ret = g.ret, !.result = g.result,
                                      !.replacements_made = g.replacements_made,
                                      !.raised = g.raised]
            /\ UNCHANGED <<diskOK, histVars, svcVars>>

NextDict == DoAddTranslation \/ DoGetTranslation

SpecDict == InitDict /\ [][NextDict]_vars

---------------------------------------------------------------------------
(* The history store on its own: direct calls of add_history.  A pair is   *)
(* given its texts in a fixed order: the next text it has not seen, or     *)
(* again the first or the latest text it has seen; the second pair is      *)
(* given few.                                                              *)

NumTexts == 11
MaxReAdds == 1
MaxOtherAdds == 1

TextNames == <<"t1", "t2", "t3", "t4", "t5", "t6", "t7", "t8", "t9", "t10",
               "t11", "t12", "t13">>
HistText(i) == Word(TextNames[i])

HistPairs == {<<"en", "ko">>, <<"auto", "ko">>}

\* the source texts given so far to the pair, in call order
AddedTo(source_lang, target_lang) ==
    IF DictHas(added, HistKey(source_lang, target_lang))
    THEN DictGet(added, HistKey(source_lang, target_lang))
    ELSE <<>>

Distinct(seq) == Cardinality({seq[i] : i \in 1..Len(seq)})

Budget(pair) == IF pair = <<"en", "ko">> THEN NumTexts + MaxReAdds ELSE MaxOtherAdds

InitHistory ==
    /\ dictMem = [l \in Langs |-> NotLoaded]
    /\ dictFile = [l \in Langs |-> NoFile]
    /\ diskOK \in BOOLEAN
    /\ call = NoCall
    /\ history = <<>>
    /\ histFile = <<>>
    /\ added = <<>>
    /\ InitUnused

DoAddHistory ==
    \E pair \in HistPairs, i \in 1..NumTexts :
        LET log == AddedTo(pair[1], pair[2])
            seen == Distinct(log)
            fresh == i = seen + 1
            items == get_history(history, pair[1], pair[2])
            translated_text == IF fresh THEN Str(Word("<annyeong>"))
                               ELSE Str(Word("<annyeonghaseyo>"))
            quality_score == IF fresh THEN NoScore ELSE Score(100)
            feedback == IF fresh THEN NoFeedback ELSE "better"
        IN  /\ Len(log) < Budget(pair)
            /\ i \in {1, seen, seen + 1}
            /\ i <= seen + 1
            /\ ~fresh => Len(log) - seen < MaxReAdds
            /\ history' = add_history(history, pair[1], pair[2], HistText(i),
                                      translated_text, quality_score, feedback)
            /\ histFile' = _save_history(histFile, history', diskOK)
            /\ added' = DictPut(added, HistKey(pair[1], pair[2]),
                                Append(log, HistText(i)))
            /\ call' = [NoCall EXCEPT !.op = "add_history", !.text = HistText(i),
                                      !.source_lang = pair[1],
                                      !.target_lang = pair[2],
                                      !.translated_text = translated_text,
                                      !.quality_score = quality_score,
                                      !.feedback = feedback,
                                      !.present = \E j \in 1..Len(items) :
                                          items[j].source_text = HistText(i)]
            /\ UNCHANGED <<dictVars, svcVars>>

NextHistory == DoAddHistory

SpecHistory == InitHistory /\ [][NextHistory]_vars

---------------------------------------------------------------------------
(* The service: translate requests, each suspended at its backend calls.   *)

\* the step of request r that ends in o = [q, g]; a request that has its
\* final translation goes on through Finish in the same step (o and the
\* outcome f are bound as values, so each is computed once)
Settle(r, o) ==
    \E v \in {o} : \E f \in {IF v.q.pc = "finish" THEN Finish(v.q, v.g) ELSE v} :
        /\ req' = [req EXCEPT ![r] = f.q]
        /\ dictMem' = f.g.mem
        /\ dictFile' = f.g.file
        /\ history' = f.g.history
        /\ histFile' = f.g.histFile
        /\ translation_cache' = f.g.cache
        /\ lastDone' = IF f.q.pc = "done" THEN r ELSE 0
        /\ UNCHANGED <<diskOK, call, added, settings, env>>

\* a caller issues translate(text, source_lang, target_lang); source_lang ""
\* is the absent `from` parameter
Translate(r) ==
    \E source_lang \in env.source_langs, target_lang \in env.target_langs,
       text \in env.texts :
        /\ req[r].pc = "idle"
        /\ r <= env.requests
        /\ \A o \in Reqs : o < r => req[o].pc # "idle"
        /\ Settle(r, translate([Idle EXCEPT !.source_lang = source_lang,
                                            !.target_lang = target_lang,
                                            !.text = text, !.prev = lastDone],
                               Globals))
        /\ UNCHANGED _evaluation_history

\* the backend answers the translation call of line 195
TranslateReply(r) ==
    \E content \in env.translate :
        /\ req[r].pc = "translate"
        /\ Settle(r, [q |-> Translated(req[r], content), g |-> Globals])
        /\ UNCHANGED _evaluation_history

\* the backend answers an evaluation call, or wait_for gives it up
EvaluateReply(r) ==
    \E content \in env.evaluate :
        LET q == [req[r] EXCEPT !.answer = content.kind]
            e == EvaluationResult(content)
            candidate == IF q.in_loop THEN q.improved_translation ELSE q.translated_text
            logged == IF e.log = "" THEN q.logged ELSE q.logged \cup {e.log}
        IN  /\ q.pc = "evaluate"
            /\ IF content.kind = "timeout"
               THEN /\ Settle(r, [q |-> IF q.in_loop THEN AttemptFailed(q)
                                        ELSE [q EXCEPT !.pc = "finish",
                                                       !.quality_score = 80,
                                                       !.feedback = "evaluation timeout",
                                                       !.logged = @ \cup {"evaluation_timeout"}],
                                  g |-> Globals])
                    /\ UNCHANGED _evaluation_history
               ELSE /\ Settle(r, [q |-> Evaluated([q EXCEPT !.logged = logged], e),
                                  g |-> Globals])
                    /\ _evaluation_history' =
                         IF e.stored
                         THEN store_evaluation_history(_evaluation_history, q.text,
                                  [score |-> e.score, feedback |-> e.feedback,
                                   translated_text |-> candidate])
                         ELSE _evaluation_history

\* the backend answers an improvement call, or wait_for gives it up
ImproveReply(r) ==
    \E content \in env.improve :
        LET q == [req[r] EXCEPT !.answer = content.kind]
            i == ImprovementResult(q.current_translation, q.word_mapping, content)
            logged == IF content.kind = "Exception"
                      THEN q.logged \cup {"improvement_error"} ELSE q.logged
        IN  /\ q.pc = "improve"
            /\ Settle(r, [q |-> IF content.kind = "timeout" THEN AttemptFailed(q)
                                ELSE Improved([q EXCEPT !.logged = logged], i),
                          g |-> Globals])
            /\ UNCHANGED _evaluation_history

Next == \E r \in Reqs : Translate(r) \/ TranslateReply(r) \/ EvaluateReply(r) \/ ImproveReply(r)

\* JSON objects of the backend
TranslationObject(translation, word_mapping) ==
    << <<"translation", Str(translation)>>, <<"word_mapping", word_mapping>> >>
EvaluationObject(score) == << <<"score", JInt(score)>>, <<"feedback", FeedbackOf(score)>> >>

\* an object of three keys whose translation is empty
NotedObject ==
    << <<"translation", Str(<<>>)>>, <<"word_mapping", WmList(<<>>)>>,
       <<"note", Str(<<Tok("ok")>>)>> >>

HelloSara == <<Tok("hello"), Tok("Sara")>>
Annyeong == Word("<annyeonghaseyo>")
AnnyeongSara == <<Tok("<annyeonghaseyo>"), Tok("<sara>")>>
SaraAnnyeong == <<Tok("<sara>"), Tok("<annyeonghaseyo>")>>

Configs ==
    { [ENABLE_CACHE |-> TRUE, ENABLE_DICTIONARY |-> TRUE, ENABLE_EVALUATION |-> FALSE],
      [ENABLE_CACHE |-> TRUE, ENABLE_DICTIONARY |-> TRUE, ENABLE_EVALUATION |-> TRUE],
      [ENABLE_CACHE |-> FALSE, ENABLE_DICTIONARY |-> TRUE, ENABLE_EVALUATION |-> FALSE],
      [ENABLE_CACHE |-> TRUE, ENABLE_DICTIONARY |-> FALSE, ENABLE_EVALUATION |-> FALSE] }

\* after startup (main.py lifespan): a dictionary file that exists is loaded,
\* history and cache are empty or the cache holds 1000 entries of other keys
InitStores ==
    /\ \/ /\ dictFile = [l \in Langs |-> NoFile]
          /\ dictMem = [l \in Langs |-> NotLoaded]
          /\ diskOK \in BOOLEAN
       \/ /\ dictFile = [l \in Langs |-> IF l = "ko" THEN SeedFile ELSE NoFile]
          /\ dictMem = [l \in Langs |->
                          IF l = "ko" THEN [loaded |-> TRUE, d |-> SeedFile.d]
                          ELSE NotLoaded]
          /\ diskOK = TRUE
    /\ call = NoCall
    /\ history = <<>>
    /\ histFile = <<>>
    /\ added = <<>>
    /\ _evaluation_history = <<>>
    /\ req = [r \in Reqs |-> Idle]
    /\ lastDone = 0

\* two requests, which may be in flight together
Init ==
    /\ InitStores
    /\ settings \in Configs
    /\ translation_cache \in {[fillers |-> 0, entries |-> <<>>],
                              [fillers |-> 1000, entries |-> <<>>]}
    /\ env = [requests |-> 2,
              source_langs |-> {"", "en"}, target_langs |-> {"ko", "en"},
              texts |-> {<<>>, Word("hello"), HelloSara},
              translate |-> {Object(TranslationObject(Annyeong, WmList(<<>>))),
                             Object(TranslationObject(AnnyeongSara,
                                 WmList(<<WmEntry("Sara", "<sara>", "character_names")>>))),
                             Object(TranslationObject(Annyeong,
                                 WmList(<<WmEntry("hello", "<annyeonghaseyo>", "proper_nouns")>>))),
                             Object(<<>>), Other("RequestError")},
              evaluate |-> {Object(EvaluationObject(60)), Object(EvaluationObject(95))},
              improve |-> {Object(TranslationObject(SaraAnnyeong, WmList(<<>>))),
                           Other("empty")}]

Spec == Init /\ [][Next]_vars

\* one request, evaluation enabled or not, every kind of backend answer
InitRequest ==
    /\ InitStores
    /\ settings \in {c \in Configs : c.ENABLE_CACHE /\ c.ENABLE_DICTIONARY}
    /\ translation_cache = [fillers |-> 0, entries |-> <<>>]
    /\ env = [requests |-> 1,
              source_langs |-> {"", "en"}, target_langs |-> {"ko"},
              texts |-> {Word("hello"), <<Tok("hello"), Tok("ok")>>, HelloSara,
                         Word(HugeWord)},
              translate |-> {Object(TranslationObject(Annyeong, WmList(<<>>))),
                             Object(TranslationObject(Word("<ne>"), WmList(<<>>))),
                             Object(TranslationObject(<<>>, WmList(<<>>))),
                             Object(NotedObject),
                             Object(TranslationObject(Annyeong,
                                 WmList(<<[WmEntry("hello", "<annyeong>", "ui")
                                             EXCEPT !.wellformed = FALSE]>>))),
                             Object(<<>>), Other("empty"), Other("garbage"),
                             Other("RequestError"), Other("Exception")},
              evaluate |-> {Object(EvaluationObject(60)), Object(EvaluationObject(68)),
                            Object(EvaluationObject(75)), Object(EvaluationObject(90)),
                            Other("garbage"), Other("Exception"), Other("timeout")},
              improve |-> {Object(TranslationObject(AnnyeongSara, WmList(<<>>))),
                           Object(TranslationObject(SaraAnnyeong, WmNone)),
                           Object(TranslationObject(Word("<ne>"), WmList(<<>>))),
                           Other("garbage"), Other("Exception"), Other("timeout")}]

SpecRequest == InitRequest /\ [][Next]_vars

\* every backend call is bounded by a timeout (asyncio.wait_for, lines 304,
\* 340 and 358; asyncio.timeout in OllamaLLM.chat), so a suspended request
\* is resumed
SpecRequestFair == InitRequest /\ [][Next]_vars /\ WF_vars(Next)

---------------------------------------------------------------------------
(* Language codes: utils/language_utils.py.  A string is the sequence of   *)
(* its characters.                                                         *)

Uppers == <<"A", "B", "C", "D", "E", "F", "G", "H", "I", "J", "K", "L", "M", "N", "O", "P", "Q", "R", "S", "T", "U", "V", "W", "X", "Y", "Z">>
Lowers == <<"a", "b", "c", "d", "e", "f", "g", "h", "i", "j", "k", "l", "m", "n", "o", "p", "q", "r", "s", "t", "u", "v", "w", "x", "y", "z">>

\* c.lower(), c.isalpha(), c.isspace() of one character
LowerChar(c) == IF \E i \in 1..26 : Uppers[i] = c THEN Lowers[CHOOSE i \in 1..26 : Uppers[i] = c] ELSE c
IsAlphaChar(c) == \E i \in 1..26 : Uppers[i] = c \/ Lowers[i] = c
IsSpaceChar(c) == c \in {" ", "\t", "\n"}

\* x.lower()
StrLower(x) == [i \in 1..Len(x) |-> LowerChar(x[i])]

\* x.strip()
RECURSIVE LStrip(_)
LStrip(x) == IF x # <<>> /\ IsSpaceChar(x[1]) THEN LStrip(Tail(x)) ELSE x
RECURSIVE RStrip(_)
RStrip(x) == IF x # <<>> /\ IsSpaceChar(x[Len(x)]) THEN RStrip(SubSeq(x, 1, Len(x) - 1)) ELSE x
StrStrip(x) == RStrip(LStrip(x))

\* lines 12-35
code_mapping ==
    << <<<<"k", "o", "r", "e", "a", "n">>, <<"k", "o">>>>,
       <<<<"e", "n", "g", "l", "i", "s", "h">>, <<"e", "n">>>>,
       <<<<"j", "a", "p", "a", "n", "e", "s", "e">>, <<"j", "a">>>>,
       <<<<"c", "h", "i", "n", "e", "s", "e">>, <<"z", "h">>>>,
       <<<<"s", "p", "a", "n", "i", "s", "h">>, <<"e", "s">>>>,
       <<<<"f", "r", "e", "n", "c", "h">>, <<"f", "r">>>>,
       <<<<"g", "e", "r", "m", "a", "n">>, <<"d", "e">>>>,
       <<<<"r", "u", "s", "s", "i", "a", "n">>, <<"r", "u">>>>,
       <<<<"p", "o", "r", "t", "u", "g", "u", "e", "s", "e">>, <<"p", "t">>>>,
       <<<<"a", "r", "a", "b", "i", "c">>, <<"a", "r">>>>,
       <<<<"k", "o", "r">>, <<"k", "o">>>>,
       <<<<"e", "n", "g">>, <<"e", "n">>>>,
       <<<<"j", "p", "n">>, <<"j", "a">>>>,
       <<<<"c", "h", "n">>, <<"z", "h">>>>,
       <<<<"e", "s", "p">>, <<"e", "s">>>>,
       <<<<"f", "r", "a">>, <<"f", "r">>>>,
       <<<<"d", "e", "u">>, <<"d", "e">>>>,
       <<<<"r", "u", "s">>, <<"r", "u">>>>,
       <<<<"p", "o", "r">>, <<"p", "t">>>>,
       <<<<"a", "r", "a">>, <<"a", "r">>>> >>

\* a normalization that looks the code up before it strips it
normalize_lookup_unstripped(lang_code) ==
    LET normalized == StrLower(lang_code)
    IN  IF lang_code = <<>> THEN <<>>
        ELSE IF DictHas(code_mapping, normalized) THEN DictGet(code_mapping, normalized)
        ELSE StrStrip(normalized)

\* normalize_language_code
normalize_language_code(lang_code) ==
    LET normalized == StrStrip(StrLower(lang_code))
    IN  IF lang_code = <<>> THEN <<>>
        ELSE IF DictHas(code_mapping, normalized) THEN DictGet(code_mapping, normalized)
        ELSE IF Len(normalized) = 2 /\ \A i \in 1..2 : IsAlphaChar(normalized[i])
        THEN normalized
        ELSE normalized

\* the codes callers pass: 2-letter codes, 3-letter codes, full names,
\* unknown strings, in lower case, upper case or capitalized, between
\* whitespace; and the empty string
LangInputs ==
    LET UpperChar(c) == IF \E i \in 1..26 : Lowers[i] = c
                        THEN Uppers[CHOOSE i \in 1..26 : Lowers[i] = c] ELSE c
        bases == { <<"k", "o">>,
                   <<"e", "n">>,
                   <<"k", "o", "r">>,
                   <<"e", "n", "g">>,
                   <<"j", "p", "n">>,
                   <<"k", "o", "r", "e", "a", "n">>,
                   <<"e", "n", "g", "l", "i", "s", "h">>,
                   <<"c", "h", "i", "n", "e", "s", "e">>,
                   <<"x", "x">>,
                   <<"x", "y", "z">>,
                   <<"k", "1">>,
                   <<"k", "o", "-", "k", "r">>,
                   <<"a", "u", "t", "o">>,
                   <<"q">> }
        Casings(x) == { x, [i \in 1..Len(x) |-> UpperChar(x[i])],
                        [i \in 1..Len(x) |-> IF i = 1 THEN UpperChar(x[i]) ELSE x[i]] }
        paddings == { <<>>, <<" ">>, <<"\t", " ">>, <<" ", "\n">> }
    IN  {<<>>} \cup { l \o c \o r : l \in paddings, r \in paddings,
                                   c \in UNION { Casings(x) : x \in bases } }

InitLang ==
    /\ dictMem = [l \in Langs |-> NotLoaded]
    /\ dictFile = [l \in Langs |-> NoFile]
    /\ diskOK = TRUE
    /\ call = NoCall
    /\ history = <<>>
    /\ histFile = <<>>
    /\ added = <<>>
    /\ InitUnused

\* a caller normalizes a code, and normalizes the result again
DoNormalize ==
    \E lang_code \in LangInputs :
        /\ call' = [NoCall EXCEPT
                      !.op = "normalize", !.code = lang_code,
                      !.normalized = normalize_language_code(lang_code),
                      !.twice = normalize_language_code(normalize_language_code(lang_code))]
        /\ UNCHANGED <<dictMem, dictFile, diskOK, histVars, svcVars>>

NextLang == DoNormalize

SpecLang == InitLang /\ [][NextLang]_vars

---------------------------------------------------------------------------
(* The evaluator on its own: direct calls of evaluate_translation.  `added` *)
(* maps a source text to the results of its calls that were neither        *)
(* answered without the backend nor ended in an except clause.             *)

MaxEvals == 6
MaxOtherEvals == 1

EvalTexts == {HelloSara, Word("hello"), Word("ok")}
EvalTranslations == {Str(AnnyeongSara), Str(HelloSara), Str(Word("ok"))}

\* answers of the backend to the evaluations of HelloSara: the answer to
\* the evaluation number n + 1 has the score 60 + n
MainContents(n) == {Object(EvaluationObject(60 + n)), Other("Exception")}

\* answers of every kind: scores in and out of range, negative, absent, with
\* a decimal, not a number, null; no JSON; an exception of the call
EvalContents ==
    {Object(EvaluationObject(60)), Object(EvaluationObject(150)),
     Object(EvaluationObject(-5)), Object(<< <<"feedback", "fine">> >>),
     Object(<< <<"score", JFloat(855)>>, <<"feedback", "feedback 85.5">> >>),
     Object(<< <<"score", JText>>, <<"feedback", "fine">> >>),
     Object(<< <<"score", JNull>>, <<"feedback", "fine">> >>),
     Other("empty"), Other("garbage"), Other("Exception")}

InitEval ==
    /\ dictMem = [l \in Langs |-> NotLoaded]
    /\ dictFile = [l \in Langs |-> NoFile]
    /\ diskOK = TRUE
    /\ call = NoCall
    /\ history = <<>>
    /\ histFile = <<>>
    /\ added = <<>>
    /\ InitUnused

DoEvaluate ==
    \E source_text \in EvalTexts, translated_text \in EvalTranslations,
       content \in EvalContents \cup UNION {MainContents(n) : n \in 0..MaxEvals} :
        LET e == evaluate_translation(_evaluation_history, source_text,
                                      translated_text, content)
            results == PyGet(added, source_text, <<>>)
            counted == ~e.trivial /\ e.log = ""
        IN  /\ IF source_text = HelloSara THEN content \in MainContents(Len(results))
               ELSE content \in EvalContents /\ translated_text = Str(AnnyeongSara)
            /\ counted =>
                  Len(results) < (IF source_text = HelloSara THEN MaxEvals
                                  ELSE MaxOtherEvals)
            /\ _evaluation_history' = e.h
            /\ added' = IF counted
                        THEN DictPut(added, source_text,
                                 Append(results,
                                        [score |-> e.score, feedback |-> e.feedback,
                                         translated_text |-> translated_text]))
                        ELSE added
            /\ call' = [op |-> "evaluate", source_text |-> source_text,
                        translated_text |-> translated_text,
                        content |-> IF e.trivial THEN Other("none") ELSE content,
                        score |-> e.score, trivial |-> e.trivial, log |-> e.log,
                        unchanged |-> e.h = _evaluation_history]
            /\ UNCHANGED <<dictVars, history, histFile, settings, translation_cache,
                           req, env, lastDone>>

NextEval == DoEvaluate

SpecEval == InitEval /\ [][NextEval]_vars

---------------------------------------------------------------------------
(* Claims about the dictionary *)

\* some category other than `category` holds the term, in any letter case
TermInOtherCategory(d, category, term) ==
    \E i \in 1..Len(d) :
        /\ d[i][1] # category
        /\ \E j \in 1..Len(d[i][2]) : Lower(d[i][2][j][1]) = Lower(term)

\* C4: when add_translation(term, translation, lang, category) has returned
\* true, the get_translation(term, lang) that follows returns exactly that
\* translation.  The formula states this for the terms that no other category
\* of the dictionary holds, so the priority order among categories plays no
\* part in a violation.
C4_RoundTrip ==
    [][ ( /\ call.op = "add" /\ call.ok
          /\ ~TermInOtherCategory(dictMem[call.lang].d, call.category, call.term)
          /\ call'.op = "get"
          /\ call'.text = Word(call.term)
          /\ call'.lang = call.lang )
        => call'.ret = Str(Word(call.translation)) ]_vars

\* a bare ASCII-alphabetic token of the original, longer than one character,
\* stands unchanged at its place in the substituted text
Survives(text, result) ==
    \E i \in 1..Len(text) :
        /\ text[i].p = ""
        /\ IsAsciiAlpha(text[i].w)
        /\ WLen(text[i].w) > 1
        /\ i <= Len(result)
        /\ result[i] = text[i]

\* C5: when get_translation has made a partial substitution and a bare
\* alphabetic token of the original (length > 1) is still in the substituted
\* text, it returns None; a string it returns after a substitution holds no
\* such token.
C5_NoUntranslatedToken ==
    (call.op = "get" /\ call.replacements_made) =>
        /\ Survives(call.text, call.result) => call.ret = None
        /\ call.ret # None => ~Survives(call.text, call.ret.s)

\* a substitution was made, a token of the original survived it, None came back
C5_Witness ==
    /\ call.op = "get" /\ call.replacements_made
    /\ Survives(call.text, call.result)
    /\ call.ret = None

---------------------------------------------------------------------------
(* Claims about the history store *)

SourceTexts(items) == [i \in 1..Len(items) |-> items[i].source_text]

\* the texts of a call log, each once, in the order of their last occurrence
RECURSIVE ByLastAdd(_)
ByLastAdd(log) ==
    IF log = <<>> THEN <<>>
    ELSE LET rest == ByLastAdd(Tail(log))
         IN  IF \E i \in 1..Len(rest) : rest[i] = log[1]
             THEN rest ELSE <<log[1]>> \o rest

\* C6: after any sequence of add_history calls the list of every language
\* pair holds at most 10 records, and they are the 10 most recently added
\* source texts, oldest first.
C6_HistoryBounded ==
    \A pair \in HistPairs :
        LET items == get_history(history, pair[1], pair[2])
            recent == ByLastAdd(AddedTo(pair[1], pair[2]))
        IN  /\ Len(items) <= 10
            /\ SourceTexts(items) =
                 IF Len(recent) > 10 THEN SubSeq(recent, Len(recent) - 9, Len(recent))
                 ELSE recent

\* 11 distinct texts were added to a pair, whose list holds the last 10
C6_Witness ==
    /\ Distinct(AddedTo("en", "ko")) = 11
    /\ Len(get_history(history, "en", "ko")) = 10
    /\ get_history(history, "en", "ko")[1].source_text = HistText(2)
    /\ get_history(history, "en", "ko")[10].source_text = HistText(11)

NoDuplicateSource(items) ==
    \A i, j \in 1..Len(items) : items[i].source_text = items[j].source_text => i = j

\* C7: no list holds two records of one source text; an add_history of a
\* source text the pair already has leaves the length of the list as it was,
\* puts the record of the call (its translation, score and feedback) at the
\* most recent place, and an add_history changes the list of no other pair.
C7_HistoryDedup ==
    [][ call'.op = "add_history" =>
        LET before == get_history(history, call'.source_lang, call'.target_lang)
            after == get_history(history', call'.source_lang, call'.target_lang)
        IN  /\ \A pair \in HistPairs :
                NoDuplicateSource(get_history(history', pair[1], pair[2]))
            /\ (\E j \in 1..Len(before) : before[j].source_text = call'.text) =>
                 /\ Len(after) = Len(before)
                 /\ after[Len(after)] =
                      HistoryRecord(call'.text, call'.translated_text,
                                    call'.quality_score, call'.feedback)
            /\ \A pair \in HistPairs :
                 pair # <<call'.source_lang, call'.target_lang>> =>
                   get_history(history', pair[1], pair[2]) =
                     get_history(history, pair[1], pair[2]) ]_vars

\* a source text the pair already had was added again, while the other pair
\* has a list of its own
C7_Witness ==
    /\ call.op = "add_history" /\ call.present
    /\ call.source_lang = "en"
    /\ Len(get_history(history, "en", "ko")) >= 2
    /\ get_history(history, "en", "ko")[Len(get_history(history, "en", "ko"))].translated_text
         = Str(Word("<annyeonghaseyo>"))
    /\ get_history(history, "auto", "ko") # <<>>

---------------------------------------------------------------------------
(* Claims about the service *)

Identical(p, q) ==
    p.source_lang = q.source_lang /\ p.target_lang = q.target_lang /\ p.text = q.text

BestObserved(observed) ==
    CHOOSE i \in 1..Len(observed) :
        \A j \in 1..Len(observed) :
            /\ observed[j][2] <= observed[i][2]
            /\ j < i => observed[j][2] < observed[i][2]

\* C2: the translation a request returns after evaluations is the candidate
\* whose score is the greatest one observed, the earliest such candidate on
\* ties.
C2_BestOfRetention ==
    \A r \in Reqs :
        (req[r].pc = "done" /\ req[r].observed # <<>>) =>
            req[r].ret = req[r].observed[BestObserved(req[r].observed)][1]

\* the scores 60, 75, 68 were observed and the candidate scored 75 returned,
\* which is not the last candidate
C2_Witness ==
    \E r \in Reqs :
        /\ req[r].pc = "done"
        /\ [i \in 1..Len(req[r].observed) |-> req[r].observed[i][2]] = <<60, 75, 68>>
        /\ req[r].ret = req[r].observed[2][1]
        /\ req[r].ret # req[r].observed[3][1]

\* C3: when the first evaluation of the initial translation gives a score at
\* or above the threshold, improve is never called, no other evaluation is
\* made, and the request returns the initial translation.
C3_ThresholdTermination ==
    \A r \in Reqs :
        (req[r].observed # <<>> /\ req[r].observed[1][2] >= QUALITY_THRESHOLD) =>
            /\ req[r].calls.improve = 0
            /\ req[r].calls.evaluate = 1
            /\ Len(req[r].observed) = 1
            /\ req[r].pc = "done"
            /\ req[r].ret = req[r].initial

\* the backend scored the initial translation exactly at the threshold
C3_Witness ==
    \E r \in Reqs :
        /\ req[r].observed = << <<Str(Annyeong), 90>> >>
        /\ req[r].pc = "done"
        /\ req[r].ret = Str(Annyeong)
        /\ req[r].calls.improve = 0

\* C8: a request whose source and target language are equal returns its text
\* in the step that issues it, without a backend call, without a call of the
\* dictionary or a use of the cache, and with dictionary, cache and history
\* left as they were.
C8_SameLanguage ==
    [][ \A r \in Reqs :
          ( /\ req[r].pc = "idle" /\ req'[r].pc # "idle"
            /\ req'[r].source_lang = req'[r].target_lang ) =>
              /\ req'[r].pc = "done"
              /\ req'[r].ret = Str(req'[r].text)
              /\ req'[r].touched = {}
              /\ req'[r].calls = [translate |-> 0, evaluate |-> 0, improve |-> 0]
              /\ UNCHANGED <<dictMem, dictFile, translation_cache, history, histFile>>
      ]_vars

\* an en -> en request returned its text
C8_Witness ==
    \E r \in Reqs :
        /\ req[r].pc = "done"
        /\ req[r].source_lang = "en" /\ req[r].target_lang = "en"
        /\ req[r].text = HelloSara
        /\ req[r].ret = Str(HelloSara)

\* the response holds no translation text: empty content, content that is not
\* JSON, or an object without a non-empty translation
EmptyTranslation(content) ==
    \/ content.kind \in {"empty", "garbage"}
    \/ /\ content.kind = "object"
       /\ ~Truthy(PyGet(content.obj, "translation", Str(<<>>)))

\* C9: a request whose translation call was answered without a translation
\* text fails with a 5xx status, has logged empty_response, and returns
\* nothing.
C9_EmptyTranslationRaises ==
    \A r \in Reqs :
        (req[r].pc \notin {"idle", "translate"} /\ EmptyTranslation(req[r].content)) =>
            /\ req[r].pc = "failed"
            /\ req[r].status >= 500
            /\ "empty_response" \in req[r].logged
            /\ req[r].ret = None

\* C10: a request without a source language is not rejected; with a text
\* that is not empty it goes into the pipeline (cache, dictionary, backend).
C10_AbsentSourceAccepted ==
    \A r \in Reqs :
        (req[r].pc # "idle" /\ req[r].source_lang = "") =>
            /\ req[r].detail # "source_lang is required"
            /\ req[r].text # <<>> => req[r].touched # {}

\* the cache key of the request that r has in the next state
KeyOf(q) == CacheKey(EffectiveSource(q.source_lang), q.target_lang, q.text)

\* C11: a request issued while the cache holds its key returns the cached
\* value in the step that issues it; it makes no backend call, touches
\* neither the dictionary nor the history, and leaves dictionary, history
\* and cache as they were.
C11_CacheHitImmediate ==
    [][ \A r \in Reqs :
          ( /\ req[r].pc = "idle" /\ req'[r].pc # "idle"
            /\ settings.ENABLE_CACHE
            /\ DictHas(translation_cache.entries, KeyOf(req'[r])) ) =>
              /\ req'[r].pc = "done"
              /\ req'[r].ret = DictGet(translation_cache.entries, KeyOf(req'[r]))
              /\ req'[r].calls = [translate |-> 0, evaluate |-> 0, improve |-> 0]
              /\ req'[r].touched \subseteq {"cache"}
              /\ UNCHANGED <<dictMem, dictFile, translation_cache, history, histFile>>
      ]_vars

\* the last record of the history of a request's language pair
LastRecord(h, q) ==
    LET items == get_history(h, EffectiveSource(q.source_lang), q.target_lang)
    IN  items[Len(items)]

\* C12: a request that misses the cache and whose text the dictionary lookup
\* get_translation answers returns that answer in the step that issues it,
\* without a backend call; the step records the history record (text,
\* answer) with quality score 100 and, the cache being enabled, stores the
\* answer under the request's key.
C12_DictionaryHit ==
    [][ \A r \in Reqs :
          LET q == req'[r]
              t == get_translation(dictMem, dictFile, q.text, q.target_lang, diskOK)
          IN  ( /\ req[r].pc = "idle" /\ q.pc # "idle"
                /\ settings.ENABLE_DICTIONARY
                /\ q.source_lang # "" /\ q.source_lang # q.target_lang
                /\ q.text # <<>>
                /\ ~(settings.ENABLE_CACHE /\ DictHas(translation_cache.entries, KeyOf(q)))
                /\ ~t.raised /\ t.ret # None ) =>
                  /\ q.pc = "done"
                  /\ q.ret = t.ret
                  /\ q.calls = [translate |-> 0, evaluate |-> 0, improve |-> 0]
                  /\ get_history(history', q.source_lang, q.target_lang) # <<>>
                  /\ LastRecord(history', q) =
                       HistoryRecord(q.text, t.ret, Score(100), NoFeedback)
                  /\ settings.ENABLE_CACHE =>
                       /\ DictHas(translation_cache'.entries, KeyOf(q))
                       /\ DictGet(translation_cache'.entries, KeyOf(q)) = t.ret
      ]_vars

\* "hello Sara" was answered by a partial match of the dictionary, recorded
\* with score 100 and cached
C12_Witness ==
    \E r \in Reqs :
        /\ req[r].pc = "done" /\ req[r].text = HelloSara
        /\ req[r].calls.translate = 0
        /\ req[r].ret = Str(<<Tok("ok"), Tok("<sara>")>>)
        /\ req[r].stored = req[r].ret
        /\ get_history(history, "en", "ko") # <<>>
        /\ LastRecord(history, req[r]) =
             HistoryRecord(HelloSara, req[r].ret, Score(100), NoFeedback)
        /\ DictHas(translation_cache.entries, KeyOf(req[r]))

\* C13: once a request has finished, whichever path inserted its result
\* (the model path or the dictionary-hit path), the cache holds at most 1000
\* entries.
C13_CacheBounded ==
    (\E r \in Reqs : req[r].pc = "done") => CacheLen(translation_cache) <= 1000

\* C14: a request calls improve at most MAX_IMPROVEMENT_ATTEMPTS times and
\* its attempt counter never passes that number; an iteration that is
\* followed by another one has incremented the counter (the call of improve
\* number k is made at attempts = k - 1); and a request suspended in the
\* evaluation or in the loop ends, returned or failed, whatever the backend
\* answers.
C14_LoopTerminates ==
    /\ [](\A r \in Reqs :
            /\ req[r].calls.improve <= MAX_IMPROVEMENT_ATTEMPTS
            /\ req[r].attempts <= MAX_IMPROVEMENT_ATTEMPTS
            /\ req[r].pc = "improve" => req[r].calls.improve = req[r].attempts + 1)
    /\ [][ \A r \in Reqs :
             ( /\ req[r].in_loop
               /\ req'[r].calls.improve = req[r].calls.improve + 1 ) =>
                 req'[r].attempts = req[r].attempts + 1 ]_vars
    /\ \A r \in Reqs :
         (req[r].pc \in {"translate", "evaluate", "improve"}) ~>
             (req[r].pc \in {"done", "failed"})

\* three attempts were made, each ended by a timeout, and the request
\* returned
C14_Witness ==
    \E r \in Reqs :
        /\ req[r].pc = "done"
        /\ req[r].calls.improve = MAX_IMPROVEMENT_ATTEMPTS
        /\ req[r].attempts = MAX_IMPROVEMENT_ATTEMPTS
        /\ Len(req[r].observed) = 1

\* a backend call that ended in a timeout or in an exception
Failure(answer) == answer \in {"timeout", "Exception"}

\* the request has returned a translation and has written it to history and cache
Delivered(q) ==
    /\ q.pc = "done" /\ Truthy(q.ret)
    /\ get_history(history, EffectiveSource(q.source_lang), q.target_lang) # <<>>
    /\ LastRecord(history, q).source_text = q.text
    /\ LastRecord(history, q).translated_text = q.ret
    /\ DictHas(translation_cache.entries, KeyOf(q))
    /\ DictGet(translation_cache.entries, KeyOf(q)) = q.ret

\* C15: a request whose translation went to the evaluator never fails, and
\* when it has returned it has delivered a translation to caller, history
\* and cache.  A timeout or exception of an improve call or of an evaluation
\* inside the loop leaves the best candidate and its score as they were, and
\* the loop goes on with the attempt counted or the request returns the best
\* candidate.  A timeout or exception of the first evaluation makes the
\* request return the initial translation without a call of improve.
C15_FailureIsLocal ==
    /\ [](\A r \in Reqs :
            req[r].initial # None =>
                /\ req[r].pc # "failed"
                /\ req[r].pc = "done" => Delivered(req[r]))
    /\ [][ \A r \in Reqs :
             ( /\ req[r].pc \in {"evaluate", "improve"}
               /\ req'[r] # req[r]
               /\ Failure(req'[r].answer) ) =>
                 IF req[r].in_loop
                 THEN /\ req'[r].best_translation = req[r].best_translation
                      /\ req'[r].best_score = req[r].best_score
                      /\ \/ /\ req'[r].pc = "improve"
                            /\ req'[r].attempts = req[r].attempts + 1
                         \/ /\ req'[r].pc = "done"
                            /\ req'[r].ret = req[r].best_translation
                 ELSE /\ req'[r].pc = "done"
                      /\ req'[r].ret = req[r].initial
                      /\ req'[r].calls.improve = 0 ]_vars

\* C16: the step in which the translation call of a request ends with a
\* connection failure makes the request fail with status 503, logs
\* connection_error, and leaves history and cache as they were; the request
\* has made that call once and makes no other call; and 503 is the status of
\* no other failure.
C16_ServiceUnavailable ==
    /\ [](\A r \in Reqs :
            /\ req[r].content.kind = "RequestError" =>
                 /\ req[r].pc = "failed" /\ req[r].status = 503
                 /\ req[r].ret = None
                 /\ "connection_error" \in req[r].logged
                 /\ req[r].calls = [translate |-> 1, evaluate |-> 0, improve |-> 0]
                 /\ req[r].stored = None
            /\ req[r].status = 503 => req[r].content.kind = "RequestError")
    /\ [][ \A r \in Reqs :
             (req[r].pc = "translate" /\ req'[r].content.kind = "RequestError") =>
                 UNCHANGED <<history, histFile, translation_cache>> ]_vars

\* a request failed with 503 while another one failed with 500
C16_Witness ==
    \E r, o \in Reqs :
        /\ req[r].pc = "failed" /\ req[r].status = 503
        /\ req[r].content.kind = "RequestError"
        /\ req[r].calls.translate = 1
        /\ req[o].pc = "failed" /\ req[o].status = 500

\* C17: while the dictionary files can be neither created, read nor written,
\* a call of get_translation returns (it raises nothing), a call of
\* add_translation returns false, and no request fails for another reason
\* than its missing source language or the answer to its translation call.
C17_PersistenceFailureSwallowed ==
    ~diskOK =>
        /\ call.op = "get" => ~call.raised
        /\ call.op = "add" => ~call.ok
        /\ \A r \in Reqs :
             req[r].pc = "failed" =>
                 req[r].source_lang = "" \/ req[r].content.kind # "none"

---------------------------------------------------------------------------
(* Claims about language codes *)

\* C18: normalizing a normalized code gives the same code, for every input:
\* any letter case, whitespace around it, full names, 3-letter codes, unknown
\* strings, the empty string.
C18_NormalizeIdempotent ==
    call.op = "normalize" => call.twice = call.normalized

\* " Korean\n" was normalized to "ko", and "ko" again to "ko"
C18_Witness ==
    /\ call.op = "normalize"
    /\ call.code = <<" ", "K", "o", "r", "e", "a", "n", " ", "\n">>
    /\ call.normalized = <<"k", "o">>
    /\ call.twice = <<"k", "o">>

---------------------------------------------------------------------------
(* Claims about the evaluator *)

\* request r takes a step out of pc, on a backend answer that is not JSON
Unparseable(r, pc) ==
    /\ req[r].pc = pc /\ req'[r] # req[r]
    /\ req'[r].answer = "garbage"

\* C19: an evaluation whose answer is not the evaluation JSON gives the
\* score 70, logs an error, appends nothing to the evaluation history, and
\* the request does not fail.
C19_EvaluationParseFallback ==
    [][ \A r \in Reqs :
          Unparseable(r, "evaluate") =>
              /\ Len(req'[r].observed) = Len(req[r].observed) + 1
              /\ req'[r].observed[Len(req'[r].observed)][2] = 70
              /\ req'[r].logged # req[r].logged
              /\ UNCHANGED _evaluation_history
              /\ req'[r].pc # "failed" ]_vars

\* the text of an answer that is not JSON, as a translation
RawText == Str(Word("garbage"))

\* C20: an improve call whose answer is not the translation JSON gives the
\* raw text of the answer as the improved translation, not the previous
\* translation.
C20_ImproveParseFallback ==
    [][ \A r \in Reqs :
          Unparseable(r, "improve") =>
              /\ req'[r].improved_translation = RawText
              /\ req'[r].improved_translation # req[r].current_translation ]_vars

---------------------------------------------------------------------------
(* Claims about the improvement loop *)

\* C21: improve_translation never raises to its caller, and when its backend
\* call ends with an exception it returns the previous translation and the
\* word mapping it was given.
C21_ImproveNeverRaises ==
    /\ [](\A r \in Reqs : req[r].answer # "TypeError")
    /\ [][ \A r \in Reqs :
             (req[r].pc = "improve" /\ req'[r] # req[r] /\ req'[r].answer = "Exception") =>
                 /\ req'[r].improved_translation = req[r].current_translation
                 /\ req'[r].word_mapping = req[r].word_mapping ]_vars

\* C22: once the evaluation of an improved candidate gives a score at or
\* above the threshold, the request has returned that candidate, and it
\* makes no further call.
C22_StopsAtThreshold ==
    /\ [](\A r \in Reqs : \A i \in 2..Len(req[r].observed) :
            req[r].observed[i][2] >= QUALITY_THRESHOLD =>
                /\ i = Len(req[r].observed)
                /\ req[r].pc = "done"
                /\ req[r].ret = req[r].observed[i][1])
    /\ [][ \A r \in Reqs :
             (\E i \in 2..Len(req[r].observed) :
                  req[r].observed[i][2] >= QUALITY_THRESHOLD) =>
                 req'[r].calls = req[r].calls ]_vars

\* the first improved candidate reached the threshold and was returned after
\* one of the three attempts
C22_Witness ==
    \E r \in Reqs :
        /\ req[r].pc = "done"
        /\ Len(req[r].observed) = 2
        /\ req[r].observed[1][2] < QUALITY_THRESHOLD
        /\ req[r].observed[2][2] >= QUALITY_THRESHOLD
        /\ req[r].calls.improve = 1
        /\ req[r].ret = req[r].improved_translation
        /\ req[r].ret # req[r].initial

\* C23: when improve_translation returns the current candidate itself, the
\* request returns at that step, with no evaluation of the returned text and
\* no further call, and what it returns is the best candidate evaluated so
\* far: the one with the highest score.
C23_StopsWithoutProgress ==
    [][ \A r \in Reqs :
          ( /\ req[r].pc = "improve"
            /\ req'[r] # req[r]
            /\ req'[r].answer # "timeout"
            /\ req'[r].improved_translation = req[r].current_translation ) =>
              /\ req'[r].pc = "done"
              /\ req'[r].observed = req[r].observed
              /\ req'[r].calls = req[r].calls
              /\ req'[r].ret = req[r].best_translation
              /\ \E i \in 1..Len(req[r].observed) :
                    /\ req[r].observed[i][1] = req'[r].ret
                    /\ \A j \in 1..Len(req[r].observed) :
                          req[r].observed[j][2] <= req[r].observed[i][2] ]_vars

\* the second call of improve_translation gave the translation of the first
\* one again, and the request returned after two evaluations
C23_Witness ==
    \E r \in Reqs :
        /\ req[r].pc = "done"
        /\ req[r].answer = "object"
        /\ req[r].calls.improve = 2
        /\ req[r].calls.evaluate = 2
        /\ Len(req[r].observed) = 2
        /\ req[r].improved_translation = req[r].current_translation
        /\ req[r].current_translation # req[r].initial

---------------------------------------------------------------------------
(* Claims about evaluate_translation *)

\* C24: every score evaluate_translation returns is an integer from 0 to
\* 100, whatever the backend answers: 95 without a backend call when the
\* source or the translation has fewer than 3 characters, 100 when the two
\* are equal, and otherwise the answer's score brought into the range, or
\* 70.
C24_ScoreInRange ==
    call.op = "evaluate" =>
        /\ call.score \in 0..100
        /\ call.trivial <=> \/ TextLen(call.source_text) < 3
                            \/ PyLen(call.translated_text) < 3
                            \/ Str(call.source_text) = call.translated_text
        /\ call.trivial =>
              call.score = IF \/ TextLen(call.source_text) < 3
                              \/ PyLen(call.translated_text) < 3
                           THEN 95 ELSE 100
        /\ (~call.trivial /\ call.content = Object(EvaluationObject(60))) =>
              call.score = 60

\* the backend gave the score 150, and 100 was returned
C24_Witness ==
    /\ call.op = "evaluate"
    /\ ~call.trivial
    /\ call.content = Object(EvaluationObject(150))
    /\ call.score = 100

---------------------------------------------------------------------------
(* Claims about what follows the translation call *)

\* C26: a request calls the evaluator only if evaluation is enabled, its
\* text has 8 to 1000 characters and the translation has at least 2; a
\* request that called the backend for the translation and fails one of the
\* three conditions returns with that single backend call, and returns the
\* backend's translation as it was.
C26_EvaluationGate ==
    \A r \in Reqs :
        LET backend == ParseTranslation(req[r].content).translated_text
            gate == /\ settings.ENABLE_EVALUATION
                    /\ TextLen(req[r].text) >= MIN_TEXT_LENGTH_FOR_EVALUATION
                    /\ TextLen(req[r].text) <= MAX_TEXT_LENGTH_FOR_EVALUATION
                    /\ PyLen(backend) >= 2
        IN  /\ (req[r].calls.evaluate > 0 \/ req[r].calls.improve > 0) => gate
            /\ (req[r].pc = "done" /\ req[r].calls.translate = 1 /\ ~gate) =>
                  /\ req[r].calls = [translate |-> 1, evaluate |-> 0, improve |-> 0]
                  /\ req[r].observed = <<>>
                  /\ req[r].ret = backend
            /\ (req[r].pc \in {"evaluate", "improve"}) => gate

\* evaluation is enabled and the text is long enough, and the translation of
\* one character was returned after the one backend call
C26_Witness ==
    \E r \in Reqs :
        /\ settings.ENABLE_EVALUATION
        /\ req[r].pc = "done"
        /\ req[r].text = HelloSara
        /\ req[r].ret = Str(Word("<ne>"))
        /\ req[r].calls = [translate |-> 1, evaluate |-> 0, improve |-> 0]

\* C27: the history record of a request whose improvement loop ran carries
\* the final quality score and feedback, those of the candidate returned.
C27_HistoryCarriesScore ==
    \A r \in Reqs :
        (req[r].pc = "done" /\ req[r].calls.improve > 0) =>
            LET record == LastRecord(history, req[r])
            IN  /\ record.source_text = req[r].text
                /\ record.translated_text = req[r].ret
                /\ record.quality_score = Score(req[r].best_score)
                /\ record.feedback = req[r].best_feedback

---------------------------------------------------------------------------
(* Claims about add_translation *)

\* the call c of add_translation has an argument the method refuses: a text
\* or a translation that is empty or blank, a confidence below 0.5, a text
\* of more than 30 characters, a text of digits only
Refused(c) ==
    \/ c.term \in {"", " "}
    \/ c.translation \in {"", " "}
    \/ c.confidence < 5
    \/ WLen(c.term) > 30
    \/ IsDigit(c.term)

\* the step is a call of add_translation, recorded in call'
AddStep == call'.op = "add" /\ <<call, dictMem, dictFile>>' # <<call, dictMem, dictFile>>

\* C28: a call of add_translation with a refused argument returns false and
\* leaves the in-memory dictionaries and the dictionary files as they were.
C28_RejectionChangesNothing ==
    [][ (AddStep /\ Refused(call')) =>
            /\ ~call'.ok
            /\ dictMem' = dictMem
            /\ dictFile' = dictFile ]_vars

\* a text of digits was refused while a dictionary was loaded and its file
\* could be written
C28_Witness ==
    /\ call.op = "add"
    /\ call.term = "42"
    /\ ~call.ok
    /\ diskOK
    /\ \E l \in DictLangs : dictMem[l].loaded /\ dictFile[l].exists

---------------------------------------------------------------------------
(* Claims about long texts *)

\* C30: get_translation of a text of more than 30 characters that contains a
\* space returns None, whatever the dictionary holds; and a request for that
\* text that misses the cache is not answered from the dictionary: it calls
\* the backend, unless loading the dictionary raised.
C30_LongTextNotSubstituted ==
    (call.op = "get" /\ TextLen(call.text) > 30 /\ HasSpace(call.text)) =>
        LET o == translate([Idle EXCEPT !.source_lang = "ja", !.target_lang = call.lang,
                                        !.text = call.text],
                           Globals)
        IN  /\ call.ret = None
            /\ ~call.raised
            /\ ~call.replacements_made
            /\ o.q.pc \in {"translate", "failed"}
            /\ o.q.pc = "failed" => ~dictMem[call.lang].loaded /\ ~diskOK
            /\ o.q.pc = "translate" => o.q.calls.translate = 1

\* None was returned for a text of 50 characters while the loaded dictionary
\* held an entry for exactly that text, and entries for each of its words
C30_Witness ==
    /\ call.op = "get"
    /\ call.text = KeyText(LongPhrase)
    /\ call.ret = None
    /\ dictMem[call.lang].loaded
    /\ DictHas(PyGet(dictMem[call.lang].d, "custom_terms", <<>>), LongPhrase)
    /\ DictHas(PyGet(dictMem[call.lang].d, "character_names", <<>>), "Sara")

---------------------------------------------------------------------------
(* Claims about the references of the translation prompt *)

\* the lines <<term, translation>> of the prompt of request q
PromptLines(q) ==
    {q.system_prompt.custom[i] : i \in 1..Len(q.system_prompt.custom)}
        \cup {q.system_prompt.references[i] : i \in 1..Len(q.system_prompt.references)}

\* C31: when a request issues the translation call, every term of the
\* target-language dictionary that stands in the text as a word or phrase of
\* its own has a reference line in the system prompt, with its translation
C31_ReferenceLinePerTerm ==
    [][\A r \in Reqs :
          (req[r].pc = "idle" /\ req'[r].pc = "translate"
             /\ dictMem'[req'[r].target_lang].loaded)
          => LET d == dictMem'[req'[r].target_lang].d
             IN  \A i \in 1..Len(d) : \A j \in 1..Len(d[i][2]) :
                     TermStandalone(req'[r].text, d[i][2][j][1])
                         => d[i][2][j] \in PromptLines(req'[r])]_vars

---------------------------------------------------------------------------
(* Claims about the ingestion of the word mapping *)

\* C32: when process_word_mapping raises at the end of a translation, for a
\* word mapping that is None or holds a malformed entry, nothing reaches the
\* caller: the request returns the final translation, and the history
\* record and the cache entry of that translation are written
C32_WordMappingBestEffort ==
    [][\A r \in Reqs :
          (/\ req[r].pc \notin {"idle", "done", "failed"}
           /\ history' # history
           /\ process_word_mapping(dictMem, dictFile, req'[r].word_mapping,
                                   req'[r].target_lang, diskOK).raised)
          => LET q == req'[r]
                 source_lang == EffectiveSource(q.source_lang)
                 items == get_history(history', source_lang, q.target_lang)
             IN  /\ q.pc = "done"
                 /\ q.ret = q.translated_text
                 /\ items # <<>>
                 /\ items[Len(items)].source_text = q.text
                 /\ items[Len(items)].translated_text = q.ret
                 /\ settings.ENABLE_CACHE
                      => /\ DictHas(translation_cache'.entries,
                                    CacheKey(source_lang, q.target_lang, q.text))
                         /\ DictGet(translation_cache'.entries,
                                    CacheKey(source_lang, q.target_lang, q.text)) = q.ret]_vars

\* a request returned its translation although an entry of the word mapping
\* was malformed
C32_Witness ==
    /\ req[1].pc = "done"
    /\ req[1].word_mapping.ty = "list"
    /\ \E i \in 1..Len(req[1].word_mapping.items) : ~req[1].word_mapping.items[i].wellformed
    /\ req[1].ret = Str(Annyeong)
    /\ DictGet(translation_cache.entries,
               CacheKey(EffectiveSource(req[1].source_lang), "ko", req[1].text)) = Str(Annyeong)

---------------------------------------------------------------------------
(* Claims about interleaved requests *)

\* C33: add_history and add_translation run inside one step of a request, so
\* under every interleaving of two requests a step keeps every history
\* record but the one of the text it writes again, keeps every dictionary
\* term, and, the disk working, leaves the history file and the file of
\* every loaded dictionary equal to the maps in memory
C33_MutationsAtomic ==
    [][/\ \A k \in 1..Len(history) : \A i \in 1..Len(history[k][2]) :
              \/ /\ DictHas(history', history[k][1])
                 /\ \E j \in 1..Len(DictGet(history', history[k][1])) :
                        DictGet(history', history[k][1])[j] = history[k][2][i]
              \/ \E r \in Reqs : /\ req'[r] # req[r]
                                  /\ req'[r].text = history[k][2][i].source_text
       /\ \A l \in Langs : dictMem[l].loaded =>
              \A c \in 1..Len(dictMem[l].d) : \A i \in 1..Len(dictMem[l].d[c][2]) :
                  /\ dictMem'[l].loaded
                  /\ DictHas(dictMem'[l].d, dictMem[l].d[c][1])
                  /\ DictHas(DictGet(dictMem'[l].d, dictMem[l].d[c][1]),
                             dictMem[l].d[c][2][i][1])
       /\ diskOK =>
              /\ histFile' = history'
              /\ \A l \in Langs : dictMem'[l].loaded =>
                     dictFile'[l] = [exists |-> TRUE, d |-> dictMem'[l].d]]_vars

\* two overlapping requests for different texts both left their history
\* record and their learned term: the first request returned last
C33_Witness ==
    /\ lastDone = 1
    /\ req[2].pc = "done"
    /\ req[1].text = HelloSara /\ req[2].text = Word("hello")
    /\ req[1].source_lang = "en" /\ req[2].source_lang = "en"
    /\ req[1].target_lang = "ko" /\ req[2].target_lang = "ko"
    /\ Len(get_history(history, "en", "ko")) = 2
    /\ histFile = history
    /\ DictHas(dictMem["ko"].d, "proper_nouns")
    /\ DictHas(DictGet(dictMem["ko"].d, "proper_nouns"), "hello")
    /\ DictHas(DictGet(dictMem["ko"].d, "character_names"), "Sara")
    /\ dictFile["ko"].d = dictMem["ko"].d
    /\ "backend" \in req[1].touched /\ "backend" \in req[2].touched

\* requests 1 and 2 ask for the same cache key
SameKey(q1, q2) ==
    /\ q1.text = q2.text /\ q1.text # <<>>
    /\ q1.target_lang = q2.target_lang
    /\ EffectiveSource(q1.source_lang) = EffectiveSource(q2.source_lang)

\* C34: with the cache enabled, a request that starts while a request for
\* the same source language, target language and text is suspended in its
\* translation call does not call the backend again, and the two requests
\* return the same value
C34_OneCallPerKey ==
    [][settings.ENABLE_CACHE =>
          /\ (req[1].pc = "translate" /\ req[2].pc = "idle" /\ req'[2].pc # "idle"
                 /\ SameKey(req[1], req'[2]))
              => req'[2].calls.translate = 0
          /\ (req[1].pc # "done" /\ req'[1].pc = "done" /\ req[2].pc = "done"
                 /\ SameKey(req[1], req[2]))
              => req'[1].ret = req[2].ret]_vars

---------------------------------------------------------------------------
(* Claims about the values a request hands on *)

\* C35: whatever the backend answers, the value a request returns, every
\* value of the cache and the translated_text of every history record is a
\* str
C35_ValuesAreText ==
    /\ \A r \in Reqs : req[r].pc = "done" => req[r].ret.ty = "str"
    /\ \A i \in 1..Len(translation_cache.entries) :
           translation_cache.entries[i][2].ty = "str"
    /\ \A k \in 1..Len(history) : \A i \in 1..Len(history[k][2]) :
           history[k][2][i].translated_text.ty = "str"

\* C36: a request that went through the improvement loop and returns its
\* first translation, no candidate having been adopted as best, hands the
\* word mapping of that first translation to the dictionary, not the mapping
\* of a rejected candidate nor the None of a failed improve
C36_MappingOfReturnedTranslation ==
    \A r \in Reqs :
        (req[r].pc = "done" /\ req[r].in_loop /\ req[r].ret = req[r].initial)
            => req[r].word_mapping = ParseTranslation(req[r].content).word_mapping

---------------------------------------------------------------------------
(* Claims about the entries add_translation leaves alone *)

\* C37: a call of add_translation keeps, in the dictionary file of the
\* language, every entry other than the (category, term) it writes, with its
\* translation, whether or not the dictionary was loaded into memory
C37_AddKeepsOtherEntries ==
    [][call'.op = "add" =>
          \A l \in Langs : dictFile[l].exists =>
              \A c \in 1..Len(dictFile[l].d) : \A i \in 1..Len(dictFile[l].d[c][2]) :
                  LET category == dictFile[l].d[c][1]
                      term == dictFile[l].d[c][2][i][1]
                  IN  (l = call'.lang /\ category = call'.category /\ term = call'.term)
                      \/ /\ dictFile'[l].exists
                         /\ DictHas(dictFile'[l].d, category)
                         /\ DictHas(DictGet(dictFile'[l].d, category), term)
                         /\ DictGet(DictGet(dictFile'[l].d, category), term)
                              = dictFile[l].d[c][2][i][2]]_vars

---------------------------------------------------------------------------
(* Claims about the cache and the history together *)

\* C38: under every interleaving of two requests, when the cache has an
\* entry for a source language, target language and text, and the history
\* of that language pair has a record of the text, the cached value is the
\* translated_text of the record
C38_CacheAgreesWithHistory ==
    \A source_lang \in {"auto", "en"}, target_lang \in Langs :
        \A i \in 1..Len(get_history(history, source_lang, target_lang)) :
            LET record == get_history(history, source_lang, target_lang)[i]
                cache_key == CacheKey(source_lang, target_lang, record.source_text)
            IN  DictHas(translation_cache.entries, cache_key)
                    => DictGet(translation_cache.entries, cache_key) = record.translated_text

\* two overlapping requests for one key were answered differently; cache and
\* history both hold the value of the request that returned last
C38_Witness ==
    /\ lastDone = 1 /\ req[2].pc = "done"
    /\ SameKey(req[1], req[2])
    /\ req[1].ret # req[2].ret
    /\ req[1].calls.translate = 1 /\ req[2].calls.translate = 1
    /\ DictHas(translation_cache.entries,
               CacheKey(EffectiveSource(req[1].source_lang), req[1].target_lang,
                        req[1].text))
    /\ DictGet(translation_cache.entries,
               CacheKey(EffectiveSource(req[1].source_lang), req[1].target_lang,
                        req[1].text)) = req[1].ret
    /\ \E i \in 1..Len(get_history(history, EffectiveSource(req[1].source_lang),
                                    req[1].target_lang)) :
           get_history(history, EffectiveSource(req[1].source_lang),
                       req[1].target_lang)[i]
             = HistoryRecord(req[1].text, req[1].ret, NoScore, NoFeedback)

---------------------------------------------------------------------------
(* Claims about the dictionary option *)

\* C39: with ENABLE_DICTIONARY off no step of a request reads the term
\* dictionary or changes it: the map in memory and the dictionary files
\* stay as they are, no request consults the dictionary, and no prompt
\* carries references
C39_DictionaryOffUntouched ==
    [][~settings.ENABLE_DICTIONARY =>
          /\ dictMem' = dictMem
          /\ dictFile' = dictFile
          /\ \A r \in Reqs : /\ "dictionary" \notin req'[r].touched
                              /\ req'[r].system_prompt.custom = <<>>]_vars

---------------------------------------------------------------------------
(* Claims about the candidates the improvement loop adopts *)

\* C40: a request that went through the improvement loop never returns, in
\* place of its first translation, a candidate that is shorter than 3
\* characters or is the source text itself, which evaluate_translation
\* scores 95 and 100 without asking the backend
C40_NoTrivialCandidateAdopted ==
    \A r \in Reqs :
        (req[r].pc = "done" /\ req[r].in_loop /\ req[r].ret # req[r].initial)
            => /\ PyLen(req[r].ret) >= 3
               /\ req[r].ret # Str(req[r].text)

====
